---- MODULE Spec2Model ----
(***************************************************************************)
(* Model of the prompt-forge MCP server (src-tauri/src/mcp_server.rs): the *)
(* STDIO transport loop McpServer::run, the dispatcher handle_request, the *)
(* protocol handlers and the snapshot loader load_data.                    *)
(*                                                                         *)
(* JSON values are modelled structurally.  An input line is a record; a    *)
(* JSON object member that is absent is the token Missing, one that holds  *)
(* a value of the wrong JSON type is the token NonString.  Text produced   *)
(* by the handlers is a sequence of string tokens.                         *)
(***************************************************************************)
EXTENDS Integers, Sequences, FiniteSets, TLC

VARIABLES
    pc,            \* position of McpServer::run: start, read, dispatch, write, done, failed
    nread,         \* number of lines obtained from stdin so far
    cur,           \* the line most recently obtained from stdin
    resp,          \* the JsonRpcResponse built for cur and not yet written
    ran,           \* the arm of handle_request executed for cur ("none": not called)
    out,           \* stdout: for each line written, the number of the input line it answers
    wrote,         \* stdout: the line written in answer to cur (NoLine: none so far)
    errOut,        \* stderr: the messages printed since cur was read (or by the startup)
    loaded,        \* outcome of the load_data call of the most recent step ("none": no call)
    agents,        \* McpServer.agents
    skills,        \* McpServer.skills
    instructions,  \* McpServer.instructions
    db,            \* content of the SQLite store at db_path (written by the desktop app)
    toolRan,       \* the tool arm of handle_tools_call executed for cur ("none": none)
    applied,       \* per agent identifier, the apply_agent result given since the last load
    combined,      \* what the command get_all_enabled_instructions returned last
    inits,         \* number of initialize / initialized messages handled so far
    md,            \* the markdown text handed to parse_agent_from_markdown, as lines
    parsed,        \* what parse_agent_from_markdown returned for md
    mcp_running,   \* AppState.mcp_running: the flag inside the mutex
    mcp_process,   \* AppState.mcp_process: the child handle inside the mutex, if any
    mutex,         \* for each of the two mutexes, the thread that holds it (0: free)
    children,      \* the child processes spawned so far: alive, exited or gone
    threads,       \* for each thread of the desktop app, the command it is executing
    ncalls,        \* number of commands invoked so far
    instruction,   \* the Instruction in hand (models.rs)
    row,           \* the category column of its row in the instructions table, if stored
    fetched        \* the category read back from the row, if read

\* The variables of the desktop application (src-tauri/src/lib.rs, AppState).
appvars == <<mcp_running, mcp_process, mutex, children, threads, ncalls>>
\* The variables of the instruction store and the instruction files (db.rs, parser.rs).
instrvars == <<instruction, row, fetched>>

vars == <<pc, nread, cur, resp, ran, out, wrote, errOut, loaded,
          agents, skills, instructions, db, toolRan, applied, combined, inits, md, parsed, appvars, instrvars>>

\* Number of input lines a run of the model reads before end of input.
MaxLines == 3

(***************************************************************************)
(* JSON tokens                                                             *)
(***************************************************************************)
Missing == "<missing>"
NonString == "<non-string>"
JsonNull == "null"
None == "None"

(***************************************************************************)
(* Records of the store (models.rs), reduced to the fields the server      *)
(* reads.                                                                  *)
(***************************************************************************)
Agent1 ==
    [id |-> "a1", name |-> "Coder", description |-> "writes code", avatar_emoji |-> "R",
     tone |-> "friendly", verbosity |-> "concise", traits |-> <<"precise">>,
     system_prompt |-> "You code.", skills |-> <<"s1">>, instructions |-> <<"i1">>]

Agent2 ==
    [id |-> "a2", name |-> "Writer", description |-> "writes prose", avatar_emoji |-> "W",
     tone |-> "formal", verbosity |-> "detailed", traits |-> <<>>,
     system_prompt |-> "You write.", skills |-> <<>>, instructions |-> <<>>]

Skill1 ==
    [id |-> "s1", name |-> "Code Review", description |-> "reviews", icon_emoji |-> "S",
     definition |-> [type |-> "prompt", template |-> "Review {{code}}"], enabled |-> TRUE]

Skill2 ==
    [id |-> "s2", name |-> "deploy", description |-> "deploys", icon_emoji |-> "D",
     definition |-> [type |-> "tool", template |-> ""], enabled |-> FALSE]

Instr1 ==
    [id |-> "i1", name |-> "Style", icon_emoji |-> "I", category |-> "CodeStyle",
     content |-> "X", priority |-> 3, enabled |-> TRUE]

Instr2 ==
    [id |-> "i2", name |-> "Safety", icon_emoji |-> "J", category |-> "Security",
     content |-> "Y", priority |-> 9, enabled |-> TRUE]

\* The contents the store takes in the model.
Store1 == [agents |-> <<Agent1>>, skills |-> <<Skill1>>, instructions |-> <<Instr1, Instr2>>]
Store2 == [agents |-> <<Agent2, Agent1>>, skills |-> <<Skill1, Skill2>>, instructions |-> <<Instr2>>]
Stores == {Store1, Store2}

\* The three collections of McpServer as one value.
Snapshot == [agents |-> agents, skills |-> skills, instructions |-> instructions]
EmptySnapshot == [agents |-> <<>>, skills |-> <<>>, instructions |-> <<>>]

(***************************************************************************)
(* load_data: opens the store and assigns the three collections one after  *)
(* the other; each `?` returns early with the assignments made so far.     *)
(* outcome names the step that fails ("ok": none).                         *)
(***************************************************************************)
LoadOutcomes == {"ok", "open", "agents", "skills", "instructions"}

load_data_stale(S, store, outcome) == S

load_data(S, store, outcome) ==
    CASE outcome = "open" -> S
      [] outcome = "agents" -> S
      [] outcome = "skills" -> [S EXCEPT !.agents = store.agents]
      [] outcome = "instructions" ->
            [S EXCEPT !.agents = store.agents, !.skills = store.skills]
      [] OTHER -> store

\* What load_data prints on stderr.
load_data_log(outcome) ==
    IF outcome = "ok" THEN <<"Loaded agents, skills, instructions from database">> ELSE <<>>

(***************************************************************************)
(* Input lines.  kind: "empty" (""), "blank" (white space only),           *)
(* "garbage" (not JSON), "object" (a JSON object with the members below).  *)
(***************************************************************************)
NoArguments == [agent_id |-> Missing, skill_id |-> Missing, category |-> Missing]
AbsentParams == [kind |-> "absent", name |-> Missing, uri |-> Missing, arguments |-> NoArguments]
NullParams == [kind |-> "null", name |-> Missing, uri |-> Missing, arguments |-> NoArguments]
ObjectParams(name, uri, arguments) ==
    [kind |-> "object", name |-> name, uri |-> uri, arguments |-> arguments]

TextLine(kind) ==
    [kind |-> kind, jsonrpc |-> Missing, id |-> Missing, method |-> Missing,
     params |-> AbsentParams]
Message(id, method, params) ==
    [kind |-> "object", jsonrpc |-> "2.0", id |-> id, method |-> method, params |-> params]

AllInstructionsUri == "prompt-forge://instructions/all"
AgentsUriPrefix == "prompt-forge://agents/"
\* uri strings of the model: the text after the agents prefix, or "" when the
\* uri does not start with it (str::strip_prefix).
strip_prefix(uri) ==
    CASE uri = "prompt-forge://agents/a1" -> "a1"
      [] uri = "prompt-forge://agents/a2" -> "a2"
      [] uri = "prompt-forge://agents/zz" -> "zz"
      [] uri = "prompt-forge://agents/Coder" -> "Coder"
      [] OTHER -> ""
starts_with_agents(uri) ==
    uri \in {"prompt-forge://agents/a1", "prompt-forge://agents/a2",
             "prompt-forge://agents/zz", "prompt-forge://agents/Coder"}

LineIds == {Missing, JsonNull, "1", "2"}
KnownMethods ==
    {"initialize", "initialized", "tools/list", "tools/call", "resources/list",
     "resources/read", "ping", "notifications/reload"}
UnknownMethods == {"Ping", "Tools/List", "shutdown"}
ToolCallParams ==
    {AbsentParams, NullParams,
     ObjectParams(Missing, Missing, NoArguments),
     ObjectParams(NonString, Missing, NoArguments),
     ObjectParams("list_agents", Missing, NoArguments),
     ObjectParams("get_agent", Missing, [NoArguments EXCEPT !.agent_id = "a2"]),
     ObjectParams("apply_agent", Missing, [NoArguments EXCEPT !.agent_id = "coder"]),
     ObjectParams("get_skill", Missing, NoArguments),
     ObjectParams("no_such_tool", Missing, NoArguments)}
ResourceReadParams ==
    {AbsentParams,
     ObjectParams(Missing, Missing, NoArguments),
     ObjectParams(Missing, AllInstructionsUri, NoArguments),
     ObjectParams(Missing, "prompt-forge://agents/a2", NoArguments),
     ObjectParams(Missing, "prompt-forge://agents/Coder", NoArguments)}

Lines ==
    {TextLine("empty"), TextLine("blank"), TextLine("garbage")}
    \cup {Message(id, m, AbsentParams) :
            id \in LineIds, m \in (KnownMethods \cup UnknownMethods)}
    \cup {Message(id, "tools/call", p) : id \in LineIds, p \in ToolCallParams}
    \cup {Message(id, "resources/read", p) : id \in LineIds, p \in ResourceReadParams}
    \cup {[Message("1", "ping", AbsentParams) EXCEPT !.jsonrpc = Missing],
          [Message("1", "ping", AbsentParams) EXCEPT !.jsonrpc = "1.0"],
          [Message("2", "ping", AbsentParams) EXCEPT !.method = Missing],
          [Message("2", "ping", AbsentParams) EXCEPT !.method = NonString]}

(***************************************************************************)
(* serde_json::from_str::<JsonRpcRequest>: jsonrpc and method are required *)
(* strings; id and params are Option<Value>, for which an absent member    *)
(* and a JSON null both give None.                                         *)
(***************************************************************************)
NoParams == [kind |-> "none", name |-> Missing, uri |-> Missing, arguments |-> NoArguments]

from_str_ok(line) ==
    /\ line.kind = "object"
    /\ line.jsonrpc \notin {Missing, NonString}
    /\ line.method \notin {Missing, NonString}

from_str_null_id(line) ==
    [id |-> IF line.id = Missing THEN None ELSE line.id,
     method |-> line.method,
     params |-> IF line.params.kind \in {"absent", "null"} THEN NoParams ELSE line.params]

from_str(line) ==
    [id |-> IF line.id \in {Missing, JsonNull} THEN None ELSE line.id,
     method |-> line.method,
     params |-> IF line.params.kind \in {"absent", "null"} THEN NoParams ELSE line.params]

(***************************************************************************)
(* JsonRpcResponse / JsonRpcError and their serialisation.  Option fields  *)
(* are [some |-> FALSE] or [some |-> TRUE, v |-> value].                   *)
(***************************************************************************)
NoneOpt == [some |-> FALSE]
Some(v) == [some |-> TRUE, v |-> v]
Ok(v) == [ok |-> TRUE, v |-> v]
Err(e) == [ok |-> FALSE, e |-> e]

\* The agent identifiers that apply_agent calls of the model carry.
AgentIdentifiers ==
    {p.arguments.agent_id : p \in {q \in ToolCallParams : q.name = "apply_agent"}}
    \ {Missing, NonString}
NoApplied == [x \in AgentIdentifiers |-> NoneOpt]

ParseErrorCode == -32700
MethodNotFoundCode == -32601
InvalidParamsCode == -32602

JsonRpcError(code, message) == [code |-> code, message |-> message, data |-> None]

NoResponse == [jsonrpc |-> "", id |-> None, result |-> NoneOpt, error |-> NoneOpt]

\* serde_json::to_string(&JsonRpcResponse): a None field is skipped
\* (skip_serializing_if = "Option::is_none"), so its member is absent from the
\* line; members is the set of member names the line has.
to_string(r) ==
    [members |-> {"jsonrpc"}
                 \cup (IF r.id # None THEN {"id"} ELSE {})
                 \cup (IF r.result.some THEN {"result"} ELSE {})
                 \cup (IF r.error.some THEN {"error"} ELSE {}),
     id |-> IF r.id = None THEN Missing ELSE r.id,
     result |-> r.result,
     error |-> r.error]

NoLine == [members |-> {}, id |-> Missing, result |-> NoneOpt, error |-> NoneOpt]

(***************************************************************************)
(* Helpers over the collections                                            *)
(***************************************************************************)
\* Iterator::find: the first of the indexes I (those whose element satisfies
\* the predicate), 0 if there is none.
first(I) == IF I = {} THEN 0 ELSE CHOOSE i \in I : \A j \in I : i <= j

RECURSIVE concat(_)
concat(seqs) == IF seqs = <<>> THEN <<>> ELSE Head(seqs) \o concat(Tail(seqs))

contains(seq, x) == \E i \in DOMAIN seq : seq[i] = x

\* str::to_lowercase on the strings of the model.
to_lowercase(s) ==
    CASE s \in {"Coder", "CODER", "coder"} -> "coder"
      [] s \in {"Writer", "writer"} -> "writer"
      [] s \in {"A2", "a2"} -> "a2"
      [] s \in {"Code Review", "code review"} -> "code review"
      [] s \in {"Code-Review", "code-review"} -> "code-review"
      [] s \in {"Code_Review", "code_review"} -> "code_review"
      [] s \in {"Security", "SECURITY", "security"} -> "security"
      [] s \in {"Code_Style", "code_style"} -> "code_style"
      [] s \in {"CodeStyle", "codestyle"} -> "codestyle"
      [] s \in {"General", "general"} -> "general"
      [] s \in {"Communication", "communication"} -> "communication"
      [] s \in {"Workflow", "workflow"} -> "workflow"
      [] s \in {"Testing", "testing"} -> "testing"
      [] s \in {"Documentation", "documentation"} -> "documentation"
      [] s \in {"Custom", "custom"} -> "custom"
      [] s \in {"Description", "description"} -> "description"
      [] s \in {"ABOUT", "about"} -> "about"
      [] s \in {"Overview", "overview"} -> "overview"
      [] s \in {"Personality", "personality"} -> "personality"
      [] s \in {"System Prompt", "system prompt"} -> "system prompt"
      [] s \in {"Notes", "notes"} -> "notes"
      [] s \in {"Tone: Professional", "tone: professional"} -> "tone: professional"
      [] s \in {"- Analytical", "- analytical"} -> "- analytical"
      [] OTHER -> s

\* .replace(' ', "-").replace('_', "-") on the strings of the model.
hyphenate(s) ==
    CASE s \in {"code review", "code_review", "code-review"} -> "code-review"
      [] OTHER -> s

\* mcp_server.rs category_to_string.
category_to_string(cat) ==
    CASE cat = "General" -> "general"
      [] cat = "CodeStyle" -> "code_style"
      [] cat = "Communication" -> "communication"
      [] cat = "Workflow" -> "workflow"
      [] cat = "Security" -> "security"
      [] cat = "Testing" -> "testing"
      [] cat = "Documentation" -> "documentation"
      [] cat = "Custom" -> "custom"

as_str_lenient(v) == IF v = Missing THEN None ELSE v

\* Option<&str> of args.get(key).and_then(|v| v.as_str()).
as_str(v) == IF v \in {Missing, NonString} THEN None ELSE v

\* serde_json::to_string_pretty of an Agent / a Skill.
agent_json(a) ==
    <<"{", a.id, a.name, a.description, a.avatar_emoji, a.tone, a.verbosity>>
    \o a.traits \o <<a.system_prompt>> \o a.skills \o <<"|">> \o a.instructions \o <<"}">>

skill_json(s) ==
    <<"{", s.id, s.name, s.description, s.icon_emoji, s.definition.type,
      s.definition.template, ToString(s.enabled), "}">>

(***************************************************************************)
(* Tool implementations: Result<String, String>                            *)
(***************************************************************************)
resolve_agent_name_first(S, agent_id) ==
    LET byName == first({n \in DOMAIN S.agents :
                           to_lowercase(S.agents[n].name) = to_lowercase(agent_id)})
    IN  IF byName # 0 THEN byName
        ELSE first({n \in DOMAIN S.agents : S.agents[n].id = agent_id})

\* Index of the agent named by agent_id: by id first, then by name
\* (case-insensitive); 0 if none.
resolve_agent(S, agent_id) ==
    LET byId == first({n \in DOMAIN S.agents : S.agents[n].id = agent_id})
    IN  IF byId # 0 THEN byId
        ELSE first({n \in DOMAIN S.agents :
                       to_lowercase(S.agents[n].name) = to_lowercase(agent_id)})

tool_get_agent(S, args) ==
    LET agent_id == as_str(args.agent_id)
        i == resolve_agent(S, agent_id)
    IN  IF agent_id = None THEN Err(<<"Missing agent_id">>)
        ELSE IF i = 0
        THEN Err(<<"Agent not found: ", agent_id, "Use list_agents to see available agents.">>)
        ELSE Ok(agent_json(S.agents[i]))

tool_list_agents(S) ==
    Ok(<<"[">>
       \o concat([i \in DOMAIN S.agents |->
                    <<S.agents[i].id, S.agents[i].name, S.agents[i].description,
                      S.agents[i].avatar_emoji>>])
       \o <<"]">>)

tool_get_instructions_or_fail(S, args) ==
    LET category_filter == as_str(args.category)
        filtered ==
            SelectSeq(S.instructions,
                   LAMBDA i : /\ i.enabled
                              /\ \/ category_filter = None
                                 \/ category_to_string(i.category)
                                        = to_lowercase(category_filter))
    IN  IF filtered = <<>> THEN Err(<<"No instructions found.">>)
        ELSE Ok(concat([k \in DOMAIN filtered |->
                    <<"## ", filtered[k].icon_emoji, filtered[k].name, "(Priority: ",
                      ToString(filtered[k].priority), "Category: ",
                      category_to_string(filtered[k].category), filtered[k].content,
                      "---">>]))

tool_get_instructions_reversed(S, args) ==
    LET category_filter == as_str(args.category)
        selected ==
            SelectSeq(S.instructions,
                   LAMBDA i : /\ i.enabled
                              /\ \/ category_filter = None
                                 \/ category_to_string(i.category)
                                        = to_lowercase(category_filter))
        filtered == [k \in DOMAIN selected |-> selected[Len(selected) + 1 - k]]
    IN  IF filtered = <<>> THEN Ok(<<"No instructions found.">>)
        ELSE Ok(concat([k \in DOMAIN filtered |->
                    <<"## ", filtered[k].icon_emoji, filtered[k].name, "(Priority: ",
                      ToString(filtered[k].priority), "Category: ",
                      category_to_string(filtered[k].category), filtered[k].content,
                      "---">>]))

tool_get_instructions(S, args) ==
    LET category_filter == as_str(args.category)
        filtered ==
            SelectSeq(S.instructions,
                   LAMBDA i : /\ i.enabled
                              /\ \/ category_filter = None
                                 \/ category_to_string(i.category)
                                        = to_lowercase(category_filter))
    IN  IF filtered = <<>> THEN Ok(<<"No instructions found.">>)
        ELSE Ok(concat([k \in DOMAIN filtered |->
                    <<"## ", filtered[k].icon_emoji, filtered[k].name, "(Priority: ",
                      ToString(filtered[k].priority), "Category: ",
                      category_to_string(filtered[k].category), filtered[k].content,
                      "---">>]))

tool_get_skill(S, args) ==
    LET skill_id == as_str(args.skill_id)
        byId == first({n \in DOMAIN S.skills : S.skills[n].id = skill_id})
        i == IF byId # 0 THEN byId
             ELSE first({n \in DOMAIN S.skills :
                            hyphenate(to_lowercase(S.skills[n].name))
                                = hyphenate(to_lowercase(skill_id))})
    IN  IF skill_id = None THEN Err(<<"Missing skill_id">>)
        ELSE IF i = 0
        THEN Err(<<"Skill not found: ", skill_id, "Use list_skills to see available skills.">>)
        ELSE Ok(skill_json(S.skills[i]))

tool_list_skills(S) ==
    IF S.skills = <<>> THEN Ok(<<"No skills configured.">>)
    ELSE Ok(<<"[">>
            \o concat([i \in DOMAIN S.skills |->
                         <<S.skills[i].id, S.skills[i].name, S.skills[i].description,
                           S.skills[i].icon_emoji, ToString(S.skills[i].enabled)>>])
            \o <<"]">>)

attached_skills_by_snapshot(S, agent) ==
    IF agent.skills = <<>> THEN <<>>
    ELSE <<"## Attached Skills">>
         \o concat([n \in DOMAIN S.skills |->
                IF S.skills[n].enabled
                   /\ \E k \in DOMAIN agent.skills : agent.skills[k] = S.skills[n].id
                THEN <<"### ", S.skills[n].icon_emoji, S.skills[n].name>>
                     \o (IF S.skills[n].definition.type = "prompt"
                         THEN <<S.skills[n].definition.template>> ELSE <<>>)
                ELSE <<>>])

\* The "## Attached Skills" section of tool_apply_agent.
attached_skills(S, agent) ==
    IF agent.skills = <<>> THEN <<>>
    ELSE <<"## Attached Skills">>
         \o concat([k \in DOMAIN agent.skills |->
                LET i == first({n \in DOMAIN S.skills :
                                  S.skills[n].id = agent.skills[k] /\ S.skills[n].enabled})
                IN  IF i = 0 THEN <<>>
                    ELSE <<"### ", S.skills[i].icon_emoji, S.skills[i].name>>
                         \o (IF S.skills[i].definition.type = "prompt"
                             THEN <<S.skills[i].definition.template>> ELSE <<>>)])

attached_instructions_any(S, agent) ==
    IF agent.instructions = <<>> THEN <<>>
    ELSE <<"## Instructions">>
         \o concat([k \in DOMAIN agent.instructions |->
                LET i == first({n \in DOMAIN S.instructions :
                                  S.instructions[n].id = agent.instructions[k]})
                IN  IF i = 0 THEN <<>>
                    ELSE <<"### ", S.instructions[i].icon_emoji, S.instructions[i].name,
                           S.instructions[i].content>>])

\* The "## Instructions" section of tool_apply_agent.
attached_instructions(S, agent) ==
    IF agent.instructions = <<>> THEN <<>>
    ELSE <<"## Instructions">>
         \o concat([k \in DOMAIN agent.instructions |->
                LET i == first({n \in DOMAIN S.instructions :
                                  /\ S.instructions[n].id = agent.instructions[k]
                                  /\ S.instructions[n].enabled})
                IN  IF i = 0 THEN <<>>
                    ELSE <<"### ", S.instructions[i].icon_emoji, S.instructions[i].name,
                           S.instructions[i].content>>])

global_instructions_all(S, agent) ==
    LET global == SelectSeq(S.instructions, LAMBDA i : i.enabled)
    IN  IF global = <<>> THEN <<>>
        ELSE <<"## Global Instructions">>
             \o concat([k \in DOMAIN global |->
                    <<"### ", global[k].icon_emoji, global[k].name,
                      category_to_string(global[k].category), global[k].content>>])

\* The "## Global Instructions" section of tool_apply_agent.
global_instructions(S, agent) ==
    LET global == SelectSeq(S.instructions,
                         LAMBDA i : i.enabled /\ ~contains(agent.instructions, i.id))
    IN  IF global = <<>> THEN <<>>
        ELSE <<"## Global Instructions">>
             \o concat([k \in DOMAIN global |->
                    <<"### ", global[k].icon_emoji, global[k].name,
                      category_to_string(global[k].category), global[k].content>>])

tool_apply_agent(S, args) ==
    LET agent_id == as_str(args.agent_id)
        i == resolve_agent(S, agent_id)
        agent == S.agents[i]
    IN  IF agent_id = None THEN Err(<<"Missing agent_id">>)
        ELSE IF i = 0
        THEN Err(<<"Agent not found: ", agent_id, "Use list_agents to see available agents.">>)
        ELSE Ok(<<"# Agent Configuration", "**Agent:** ", agent.avatar_emoji, agent.name,
                  "**Tone:** ", agent.tone, "**Verbosity:** ", agent.verbosity>>
                \o (IF agent.traits # <<>> THEN <<"**Traits:** ">> \o agent.traits ELSE <<>>)
                \o <<"## System Prompt", agent.system_prompt>>
                \o attached_skills(S, agent)
                \o attached_instructions(S, agent)
                \o global_instructions(S, agent))

get_all_instructions_markdown(S) ==
    LET enabled == SelectSeq(S.instructions, LAMBDA i : i.enabled)
    IN  IF enabled = <<>> THEN <<"No instructions enabled.">>
        ELSE <<"# Prompt Forge Instructions">>
             \o concat([k \in DOMAIN enabled |->
                    <<"## ", enabled[k].icon_emoji, enabled[k].name, "(Priority: ",
                      ToString(enabled[k].priority), "*Category: ",
                      category_to_string(enabled[k].category), enabled[k].content,
                      "---">>])

(***************************************************************************)
(* Protocol handlers: Result<Value, JsonRpcError>                          *)
(***************************************************************************)
handle_initialize_once ==
    IF inits > 0
    THEN Err(JsonRpcError(InvalidParamsCode, <<"Already initialized">>))
    ELSE Ok([tag |-> "InitializeResult", protocolVersion |-> "2024-11-05",
             capabilities |-> [tools |-> [listChanged |-> FALSE],
                               resources |-> [listChanged |-> FALSE,
                                              subscribe |-> FALSE]],
             serverInfo |-> [name |-> "prompt-forge", version |-> "0.1.0"]])

handle_initialize ==
    Ok([tag |-> "InitializeResult", protocolVersion |-> "2024-11-05",
        capabilities |-> [tools |-> [listChanged |-> FALSE],
                          resources |-> [listChanged |-> FALSE, subscribe |-> FALSE]],
        serverInfo |-> [name |-> "prompt-forge", version |-> "0.1.0"]])

EmptyObject == [tag |-> "{}"]

ToolNames ==
    <<"get_agent", "list_agents", "get_instructions", "get_skill", "list_skills",
      "apply_agent">>

handle_tools_list == Ok([tag |-> "tools", tools |-> ToolNames])

ToolResult(text, is_error) == [tag |-> "ToolResult", text |-> text, isError |-> is_error]

tool_dispatch_lenient(S, tool_name, arguments) ==
    CASE tool_name = "get_agent" -> tool_get_agent(S, arguments)
      [] tool_name = "get_instructions" -> tool_get_instructions(S, arguments)
      [] tool_name = "get_skill" -> tool_get_skill(S, arguments)
      [] tool_name = "list_skills" -> tool_list_skills(S)
      [] tool_name = "apply_agent" -> tool_apply_agent(S, arguments)
      [] OTHER -> tool_list_agents(S)

\* The match on tool_name: the tool body that runs for a name.
tool_dispatch(S, tool_name, arguments) ==
    CASE tool_name = "get_agent" -> tool_get_agent(S, arguments)
      [] tool_name = "list_agents" -> tool_list_agents(S)
      [] tool_name = "get_instructions" -> tool_get_instructions(S, arguments)
      [] tool_name = "get_skill" -> tool_get_skill(S, arguments)
      [] tool_name = "list_skills" -> tool_list_skills(S)
      [] tool_name = "apply_agent" -> tool_apply_agent(S, arguments)
      [] OTHER -> Err(<<"Unknown tool: ", tool_name>>)

wrap_tool_result_rpc_error(result) ==
    IF result.ok THEN Ok(ToolResult(result.v, NoneOpt))
    ELSE Err(JsonRpcError(InvalidParamsCode, result.e))

\* The match on the tool's Result: both arms are Ok(json!({"content": ..})),
\* the Err arm adds "isError": true.
wrap_tool_result(result) ==
    IF result.ok THEN Ok(ToolResult(result.v, NoneOpt))
    ELSE Ok(ToolResult(result.e, Some(TRUE)))

handle_tools_call(S, params) ==
    LET tool_name == as_str(params.name)
    IN  IF params.kind = "none"
        THEN Err(JsonRpcError(InvalidParamsCode, <<"Invalid params">>))
        ELSE IF tool_name = None
        THEN Err(JsonRpcError(InvalidParamsCode, <<"Missing tool name">>))
        ELSE wrap_tool_result(tool_dispatch(S, tool_name, params.arguments))

\* The arm of the match on tool_name that handle_tools_call reaches for
\* params ("none": it returns before the match, "unknown": the `_` arm).
tool_arm(params) ==
    IF params.kind = "none" \/ as_str(params.name) = None THEN "none"
    ELSE IF params.name \in {ToolNames[i] : i \in DOMAIN ToolNames} THEN params.name
    ELSE "unknown"

agent_uri_of_name(id) ==
    CASE id = "a1" -> "prompt-forge://agents/Coder"
      [] id = "a2" -> "prompt-forge://agents/Writer"

\* format!("prompt-forge://agents/{}", agent.id) on the ids of the model.
agent_uri(id) ==
    CASE id = "a1" -> "prompt-forge://agents/a1"
      [] id = "a2" -> "prompt-forge://agents/a2"

handle_resources_list(S) ==
    Ok([tag |-> "resources",
        resources |->
            [i \in DOMAIN S.agents |->
                [uri |-> agent_uri(S.agents[i].id), name |-> S.agents[i].name,
                 description |-> S.agents[i].description,
                 mimeType |-> "application/json"]]
            \o <<[uri |-> AllInstructionsUri, name |-> "All Instructions",
                  description |-> "All enabled instructions combined",
                  mimeType |-> "text/markdown"]>>])

ResourceContent(uri, mime_type, text) ==
    [tag |-> "contents", uri |-> uri, mimeType |-> mime_type, text |-> text]

handle_resources_read_by_name(S, params) ==
    LET uri == as_str(params.uri)
        agent_id == strip_prefix(uri)
        i == resolve_agent(S, agent_id)
    IN  IF params.kind = "none"
        THEN Err(JsonRpcError(InvalidParamsCode, <<"Invalid params">>))
        ELSE IF uri = None
        THEN Err(JsonRpcError(InvalidParamsCode, <<"Missing uri">>))
        ELSE IF uri = AllInstructionsUri
        THEN Ok(ResourceContent(uri, "text/markdown", get_all_instructions_markdown(S)))
        ELSE IF starts_with_agents(uri) /\ i # 0
        THEN Ok(ResourceContent(uri, "application/json", agent_json(S.agents[i])))
        ELSE Err(JsonRpcError(InvalidParamsCode, <<"Resource not found: ", uri>>))

handle_resources_read_internal_error(S, params) ==
    LET uri == as_str(params.uri)
        agent_id == strip_prefix(uri)
        i == first({n \in DOMAIN S.agents : S.agents[n].id = agent_id})
    IN  IF params.kind = "none"
        THEN Err(JsonRpcError(InvalidParamsCode, <<"Invalid params">>))
        ELSE IF uri = None
        THEN Err(JsonRpcError(InvalidParamsCode, <<"Missing uri">>))
        ELSE IF uri = AllInstructionsUri
        THEN Ok(ResourceContent(uri, "text/markdown", get_all_instructions_markdown(S)))
        ELSE IF starts_with_agents(uri) /\ i # 0
        THEN Ok(ResourceContent(uri, "application/json", agent_json(S.agents[i])))
        ELSE Err(JsonRpcError(-32603, <<"Resource not found: ", uri>>))

handle_resources_read(S, params) ==
    LET uri == as_str(params.uri)
        agent_id == strip_prefix(uri)
        i == first({n \in DOMAIN S.agents : S.agents[n].id = agent_id})
    IN  IF params.kind = "none"
        THEN Err(JsonRpcError(InvalidParamsCode, <<"Invalid params">>))
        ELSE IF uri = None
        THEN Err(JsonRpcError(InvalidParamsCode, <<"Missing uri">>))
        ELSE IF uri = AllInstructionsUri
        THEN Ok(ResourceContent(uri, "text/markdown", get_all_instructions_markdown(S)))
        ELSE IF starts_with_agents(uri) /\ i # 0
        THEN Ok(ResourceContent(uri, "application/json", agent_json(S.agents[i])))
        ELSE Err(JsonRpcError(InvalidParamsCode, <<"Resource not found: ", uri>>))

(***************************************************************************)
(* handle_request: the method table and the response envelope.  store and  *)
(* outcome are what load_data meets if the method is notifications/reload. *)
(* Gives the response, the collections afterwards, the arm taken, the      *)
(* stderr output and the outcome of load_data ("none": not called).        *)
(***************************************************************************)
method_arm_ignore_case(method) ==
    CASE method = "Ping" -> "ping"
      [] method = "Tools/List" -> "tools/list"
      [] method \in KnownMethods -> method
      [] OTHER -> "not_found"

\* match request.method.as_str(): exact string comparison against the arms.
method_arm(method) ==
    IF method \in KnownMethods THEN method ELSE "not_found"

envelope_drop_id(id, result) ==
    IF result.ok
    THEN [jsonrpc |-> "2.0", id |-> None, result |-> Some(result.v), error |-> NoneOpt]
    ELSE [jsonrpc |-> "2.0", id |-> None, result |-> NoneOpt, error |-> Some(result.e)]

\* The final match of handle_request.
envelope(id, result) ==
    IF result.ok
    THEN [jsonrpc |-> "2.0", id |-> id, result |-> Some(result.v), error |-> NoneOpt]
    ELSE [jsonrpc |-> "2.0", id |-> id, result |-> NoneOpt, error |-> Some(result.e)]

snapshot_after_any(reload, S, store, outcome) == load_data(S, store, outcome)

snapshot_after_cleared(reload, S, store, outcome) ==
    IF reload THEN load_data(S, store, outcome) ELSE EmptySnapshot

\* Only the notifications/reload arm calls load_data; every other arm
\* leaves the three collections as they are.
snapshot_after(reload, S, store, outcome) ==
    IF reload THEN load_data(S, store, outcome) ELSE S

handle_request(request, S, store, outcome) ==
    LET arm == method_arm(request.method)
        result ==
            CASE arm = "initialize" -> handle_initialize
              [] arm = "initialized" -> Ok(EmptyObject)
              [] arm = "tools/list" -> handle_tools_list
              [] arm = "tools/call" -> handle_tools_call(S, request.params)
              [] arm = "resources/list" -> handle_resources_list(S)
              [] arm = "resources/read" -> handle_resources_read(S, request.params)
              [] arm = "ping" -> Ok(EmptyObject)
              [] arm = "notifications/reload" -> Ok([tag |-> "reloaded"])
              [] OTHER -> Err(JsonRpcError(MethodNotFoundCode,
                                           <<"Method not found: ", request.method>>))
        reload == arm = "notifications/reload"
    IN  [response |-> envelope(request.id, result),
         result |-> result,
         snapshot |-> snapshot_after(reload, S, store, outcome),
         ran |-> arm,
         tool |-> IF arm = "tools/call" THEN tool_arm(request.params) ELSE "none",
         log |-> <<"Received method: ", request.method>>
                 \o (IF reload THEN load_data_log(outcome) ELSE <<>>),
         load |-> IF reload THEN outcome ELSE "none"]

(***************************************************************************)
(* The transport loop, McpServer::run                                      *)
(***************************************************************************)
(***************************************************************************)
(* The desktop application's commands on the MCP server process            *)
(* (src-tauri/src/commands.rs: get_mcp_status, start_mcp_server,           *)
(* stop_mcp_server), called from any thread on the shared AppState.  A     *)
(* step of a thread runs from one mutex operation to the next.             *)
(***************************************************************************)
Threads == {1, 2}

\* no instruction is being stored or exported
NoInstruction == instruction = Instr1 /\ row = NoneOpt /\ fetched = NoneOpt

\* Number of commands invoked in a run of the model, and in a run of the model
\* with fairness.
MaxCalls == 3

MaxFairCalls == 2

Commands == {"start_mcp_server", "stop_mcp_server", "get_mcp_status"}

servervars ==
    <<pc, nread, cur, resp, ran, out, wrote, errOut, loaded, agents, skills,
      instructions, db, toolRan, applied, combined, inits, md, parsed>>

McpStatus(running) == [running |-> running, connected_clients |-> 0]

NoReturn == [op |-> "none", result |-> Err("none")]

IdleThread(may_call) ==
    [pc |-> "idle", op |-> "none", running |-> FALSE, actually_running |-> FALSE,
     ret |-> NoReturn, prev |-> NoReturn, may_call |-> may_call]

\* lib.rs run(): AppState { mcp_running: Mutex::new(false), mcp_process: Mutex::new(None) }
AppStateNew(callers) ==
    /\ mcp_running = FALSE
    /\ mcp_process = NoneOpt
    /\ mutex = [mcp_process |-> 0, mcp_running |-> 0]
    /\ children = <<>>
    /\ threads = [t \in Threads |-> IdleThread(t \in callers)]
    /\ ncalls = 0

entry(op) ==
    CASE op = "start_mcp_server" -> "start_lock"
      [] op = "stop_mcp_server" -> "stop_lock"
      [] OTHER -> "status_read_lock"

goto(t, next) == [threads EXCEPT ![t].pc = next]

return(t, result) ==
    [threads EXCEPT ![t].pc = "idle",
                    ![t].prev = threads[t].ret,
                    ![t].ret = [op |-> threads[t].op, result |-> result]]

\* the frontend invokes a command on thread t, up to max times in all
Invoke(t, max) ==
    /\ threads[t].pc = "idle"
    /\ threads[t].may_call
    /\ ncalls < max
    /\ \E op \in Commands :
          threads' = [threads EXCEPT ![t].op = op, ![t].pc = entry(op)]
    /\ ncalls' = ncalls + 1
    /\ UNCHANGED <<mcp_running, mcp_process, mutex, children, servervars, instrvars>>

\* Mutex::lock: blocks until the mutex is free
lock(t, at, m, next) ==
    /\ threads[t].pc = at
    /\ mutex[m] = 0
    /\ mutex' = [mutex EXCEPT ![m] = t]
    /\ threads' = goto(t, next)
    /\ UNCHANGED <<mcp_running, mcp_process, children, ncalls, servervars, instrvars>>

\* the guard of mcp_process goes out of scope or is dropped
drop(t, at, next) ==
    /\ threads[t].pc = at
    /\ mutex' = [mutex EXCEPT !.mcp_process = 0]
    /\ threads' = goto(t, next)
    /\ UNCHANGED <<mcp_running, mcp_process, children, ncalls, servervars, instrvars>>

\* *state.mcp_running.lock().unwrap() = value, the guard released with the statement
set_running(t, at, value, next) ==
    /\ threads[t].pc = at
    /\ mcp_running' = value
    /\ mutex' = [mutex EXCEPT !.mcp_running = 0]
    /\ threads' = goto(t, next)
    /\ UNCHANGED <<mcp_process, children, ncalls, servervars, instrvars>>

\* Child::try_wait on child c
try_wait(c) ==
    IF children[c] = "alive" THEN {"Ok(None)", "Err"} ELSE {"Ok(Some)", "Err"}

status_read(t) ==
    /\ threads[t].pc = "status_read"
    /\ mutex' = [mutex EXCEPT !.mcp_running = 0]
    /\ threads' = [threads EXCEPT
                      ![t].running = mcp_running,
                      ![t].actually_running = FALSE,
                      ![t].pc = IF mcp_running THEN "status_lock" ELSE "status_return"]
    /\ UNCHANGED <<mcp_running, mcp_process, children, ncalls, servervars, instrvars>>

status_wait(t) ==
    /\ threads[t].pc = "status_wait"
    /\ IF mcp_process.some
       THEN \E outcome \in try_wait(mcp_process.v) :
               threads' = [threads EXCEPT
                              ![t].actually_running = (outcome = "Ok(None)"),
                              ![t].pc = IF outcome = "Ok(Some)"
                                        THEN "status_exit_lock" ELSE "status_drop"]
       ELSE threads' = [threads EXCEPT ![t].actually_running = FALSE,
                                       ![t].pc = "status_drop"]
    /\ UNCHANGED <<mcp_running, mcp_process, mutex, children, ncalls, servervars, instrvars>>

status_clear_keeps_handle(t) ==
    /\ threads[t].pc = "status_clear"
    /\ threads' = goto(t, "status_drop")
    /\ UNCHANGED <<mcp_running, mcp_process, mutex, children, ncalls, servervars, instrvars>>

status_clear(t) ==
    /\ threads[t].pc = "status_clear"
    /\ mcp_process' = NoneOpt
    /\ children' = [children EXCEPT ![mcp_process.v] = "gone"]
    /\ threads' = goto(t, "status_drop")
    /\ UNCHANGED <<mcp_running, mutex, ncalls, servervars, instrvars>>

status_return(t) ==
    /\ threads[t].pc = "status_return"
    /\ threads' = return(t, Ok(McpStatus(threads[t].actually_running)))
    /\ UNCHANGED <<mcp_running, mcp_process, mutex, children, ncalls, servervars, instrvars>>

GetMcpStatus(t) ==
    \/ lock(t, "status_read_lock", "mcp_running", "status_read")
    \/ status_read(t)
    \/ lock(t, "status_lock", "mcp_process", "status_wait")
    \/ status_wait(t)
    \/ lock(t, "status_exit_lock", "mcp_running", "status_exit")
    \/ set_running(t, "status_exit", FALSE, "status_clear")
    \/ status_clear(t)
    \/ drop(t, "status_drop", "status_return")
    \/ status_return(t)

start_check_respawns(t) ==
    /\ threads[t].pc = "start_check"
    /\ \E spawned \in BOOLEAN :
          IF spawned
          THEN /\ children' = Append(children, "alive")
               /\ mcp_process' = Some(Len(children) + 1)
               /\ threads' = goto(t, "start_set_lock")
               /\ UNCHANGED mutex
          ELSE /\ threads' = return(t, Err("Failed to start MCP server: "))
               /\ mutex' = [mutex EXCEPT !.mcp_process = 0]
               /\ UNCHANGED <<mcp_process, children>>
    /\ UNCHANGED <<mcp_running, ncalls, servervars, instrvars>>

start_check(t) ==
    /\ threads[t].pc = "start_check"
    /\ IF mcp_process.some
       THEN /\ threads' = return(t, Err("MCP server is already running"))
            /\ mutex' = [mutex EXCEPT !.mcp_process = 0]
            /\ UNCHANGED <<mcp_process, children>>
       ELSE \E spawned \in BOOLEAN :
               IF spawned
               THEN /\ children' = Append(children, "alive")
                    /\ mcp_process' = Some(Len(children) + 1)
                    /\ threads' = goto(t, "start_set_lock")
                    /\ UNCHANGED mutex
               ELSE /\ threads' = return(t, Err("Failed to start MCP server: "))
                    /\ mutex' = [mutex EXCEPT !.mcp_process = 0]
                    /\ UNCHANGED <<mcp_process, children>>
    /\ UNCHANGED <<mcp_running, ncalls, servervars, instrvars>>

start_keeps_lock(t) ==
    /\ threads[t].pc = "start_drop"
    /\ threads' = goto(t, "status_read_lock")
    /\ UNCHANGED <<mcp_running, mcp_process, mutex, children, ncalls, servervars, instrvars>>

start_drop(t) == drop(t, "start_drop", "status_read_lock")

StartMcpServer(t) ==
    \/ lock(t, "start_lock", "mcp_process", "start_check")
    \/ start_check(t)
    \/ lock(t, "start_set_lock", "mcp_running", "start_set")
    \/ set_running(t, "start_set", TRUE, "start_drop")
    \/ start_drop(t)

\* mcp_process.take(), then kill and wait on the child taken
stop_take(t) ==
    /\ threads[t].pc = "stop_take"
    /\ mcp_process' = NoneOpt
    /\ children' = IF mcp_process.some
                   THEN [children EXCEPT ![mcp_process.v] = "gone"] ELSE children
    /\ threads' = goto(t, "stop_set_lock")
    /\ UNCHANGED <<mcp_running, mutex, ncalls, servervars, instrvars>>

stop_keeps_flag(t) == set_running(t, "stop_set", mcp_running, "stop_drop")

stop_set(t) == set_running(t, "stop_set", FALSE, "stop_drop")

StopMcpServer(t) ==
    \/ lock(t, "stop_lock", "mcp_process", "stop_take")
    \/ stop_take(t)
    \/ lock(t, "stop_set_lock", "mcp_running", "stop_set")
    \/ stop_set(t)
    \/ drop(t, "stop_drop", "status_read_lock")

\* the child process ends by itself
ChildExit ==
    /\ \E c \in DOMAIN children :
          /\ children[c] = "alive"
          /\ children' = [children EXCEPT ![c] = "exited"]
    /\ UNCHANGED <<mcp_running, mcp_process, mutex, threads, ncalls, servervars, instrvars>>

Init ==
    /\ pc = "start"
    /\ nread = 0
    /\ cur = TextLine("empty")
    /\ resp = NoResponse
    /\ ran = "none"
    /\ out = <<>>
    /\ wrote = NoLine
    /\ errOut = <<>>
    /\ loaded = "none"
    /\ agents = <<>>
    /\ skills = <<>>
    /\ instructions = <<>>
    /\ db \in Stores
    /\ toolRan = "none"
    /\ applied = NoApplied
    /\ combined = NoneOpt
    /\ inits = 0
    /\ md = <<>>
    /\ parsed = NoneOpt
    /\ AppStateNew(Threads)
    /\ NoInstruction

\* run, before the loop: load_data, a warning if it failed, the start banner.
Startup ==
    /\ pc = "start"
    /\ \E outcome \in LoadOutcomes :
          LET S == load_data(Snapshot, db, outcome)
          IN  /\ agents' = S.agents
              /\ skills' = S.skills
              /\ instructions' = S.instructions
              /\ loaded' = outcome
              /\ errOut' = load_data_log(outcome)
                           \o (IF outcome # "ok"
                               THEN <<"Warning: Failed to load data from database",
                                      "MCP server will start with empty data">>
                               ELSE <<>>)
                           \o <<"Prompt Forge MCP Server started", "Database path">>
    /\ pc' = "read"
    /\ UNCHANGED <<nread, cur, resp, ran, out, wrote, db, toolRan, applied, combined, inits, md, parsed,
      appvars, instrvars>>

\* The desktop application rewrites the store.  The server looks at the
\* store only inside load_data, so the write is placed where the server is
\* about to start or waits for input.
StoreWrite ==
    /\ pc \in {"start", "read"}
    /\ db' \in Stores \ {db}
    /\ UNCHANGED <<pc, nread, cur, resp, ran, out, wrote, errOut, loaded,
                   agents, skills, instructions, toolRan, applied, combined, inits, md, parsed,
                     appvars, instrvars>>

\* stdin.lock().lines() yields the next line, one of L, while fewer than
\* max lines have been read.
ReadLineFrom(L, max) ==
    /\ pc = "read"
    /\ nread < max
    /\ \E line \in L : cur' = line
    /\ nread' = nread + 1
    /\ ran' = "none"
    /\ toolRan' = "none"
    /\ wrote' = NoLine
    /\ errOut' = <<>>
    /\ loaded' = "none"
    /\ pc' = "dispatch"
    /\ UNCHANGED <<resp, out, agents, skills, instructions, db, applied, combined,
                   inits, md, parsed, appvars, instrvars>>

ReadLine == ReadLineFrom(Lines, MaxLines)

\* stdin is at end of input: the loop ends and run returns Ok(()).
ReadEof ==
    /\ pc = "read"
    /\ pc' = "done"
    /\ UNCHANGED <<nread, cur, resp, ran, out, wrote, errOut, loaded,
                   agents, skills, instructions, db, toolRan, applied, combined, inits, md, parsed,
                     appvars, instrvars>>

\* `line?`: reading stdin fails; run returns Err and run_mcp_server exits.
ReadFail ==
    /\ pc = "read"
    /\ pc' = "failed"
    /\ errOut' = errOut \o <<"MCP Server error: ">>
    /\ UNCHANGED <<nread, cur, resp, ran, out, wrote, loaded,
                   agents, skills, instructions, db, toolRan, applied, combined, inits, md, parsed,
                     appvars, instrvars>>

\* if line.is_empty() { continue; }
SkipEmpty ==
    /\ pc = "dispatch"
    /\ cur.kind = "empty"
    /\ pc' = "read"
    /\ UNCHANGED <<nread, cur, resp, ran, out, wrote, errOut, loaded,
                   agents, skills, instructions, db, toolRan, applied, combined, inits, md, parsed,
                     appvars, instrvars>>

\* The response built by the Err(e) arm of the match on from_str.
parse_error_response ==
    [jsonrpc |-> "2.0", id |-> None, result |-> NoneOpt,
     error |-> Some(JsonRpcError(ParseErrorCode, <<"Parse error: ">>))]

parse_error_fatal == "failed"

after_parse_error_again == "dispatch"

\* Where run goes after the Err(e) arm has built its response: on to
\* writeln!/flush, then the next iteration.
after_parse_error == "write"

\* The Err(e) arm of the match on from_str: the Parse-Error response.
ParseError ==
    /\ pc = "dispatch"
    /\ cur.kind # "empty"
    /\ ~from_str_ok(cur)
    /\ resp' = parse_error_response
    /\ pc' = after_parse_error
    /\ UNCHANGED <<nread, cur, ran, out, wrote, errOut, loaded,
                   agents, skills, instructions, db, toolRan, applied, combined, inits, md, parsed,
                     appvars, instrvars>>

is_notification_never(request) == FALSE

\* let is_notification = request.id.is_none();
is_notification(request) == request.id = None

after_handle_unflushed(notification) == "read"

\* if !is_notification { writeln!; flush } : a request's response is written
\* before the next iteration, a notification's is dropped.
after_handle(notification) == IF notification THEN "read" ELSE "write"

\* History of the apply_agent tool: a notifications/reload forgets it; the
\* first apply_agent call for an identifier since then records its result
\* and the number of its line under the identifier.
record_applied(hist, request, h, line) ==
    LET x == request.params.arguments.agent_id
    IN  IF h.ran = "notifications/reload" THEN NoApplied
        ELSE IF h.tool = "apply_agent" /\ x \in AgentIdentifiers /\ ~hist[x].some
        THEN [hist EXCEPT ![x] = Some([result |-> h.result, line |-> line])]
        ELSE hist

\* The Ok(request) arm: handle_request, then the response is owed unless the
\* request is a notification.
HandleRequest ==
    /\ pc = "dispatch"
    /\ cur.kind # "empty"
    /\ from_str_ok(cur)
    /\ LET request == from_str(cur)
           notification == is_notification(request)
       IN  \E outcome \in LoadOutcomes :
             /\ method_arm(request.method) # "notifications/reload" => outcome = "ok"
             /\ LET h == handle_request(request, Snapshot, db, outcome)
                IN  /\ agents' = h.snapshot.agents
                    /\ skills' = h.snapshot.skills
                    /\ instructions' = h.snapshot.instructions
                    /\ ran' = h.ran
                    /\ toolRan' = h.tool
                    /\ applied' = record_applied(applied, request, h, nread)
                    /\ inits' = IF h.ran \in {"initialize", "initialized"}
                                THEN inits + 1 ELSE inits
                    /\ errOut' = errOut \o h.log
                    /\ loaded' = h.load
                    /\ resp' = IF notification THEN NoResponse ELSE h.response
                    /\ pc' = after_handle(notification)
    /\ UNCHANGED <<nread, cur, out, wrote, db, combined, md, parsed, appvars, instrvars>>

\* writeln!(stdout, ..) and stdout.flush() succeed.
WriteResponse ==
    /\ pc = "write"
    /\ out' = Append(out, nread)
    /\ wrote' = to_string(resp)
    /\ resp' = NoResponse
    /\ pc' = "read"
    /\ UNCHANGED <<nread, cur, ran, errOut, loaded, agents, skills, instructions, db,
                   toolRan, applied, combined, inits, md, parsed, appvars, instrvars>>

\* writeln! or flush fails: run returns Err and run_mcp_server exits.
WriteFail ==
    /\ pc = "write"
    /\ pc' = "failed"
    /\ errOut' = errOut \o <<"MCP Server error: ">>
    /\ UNCHANGED <<nread, cur, resp, ran, out, wrote, loaded,
                   agents, skills, instructions, db, toolRan, applied, combined, inits, md, parsed,
                     appvars, instrvars>>

Next ==
    \/ Startup
    \/ StoreWrite
    \/ ReadLine
    \/ ReadEof
    \/ ReadFail
    \/ SkipEmpty
    \/ ParseError
    \/ HandleRequest
    \/ WriteResponse
    \/ WriteFail

Spec == Init /\ [][Next]_vars

(***************************************************************************)
(* Properties                                                              *)
(***************************************************************************)
(***************************************************************************)
(* The instruction combiner of the desktop application, the Tauri command  *)
(* get_all_enabled_instructions (commands.rs)                              *)
(***************************************************************************)
insert_unstable(sorted, x) ==
    LET k == Cardinality({n \in DOMAIN sorted : sorted[n].priority > x.priority})
    IN  SubSeq(sorted, 1, k) \o <<x>> \o SubSeq(sorted, k + 1, Len(sorted))

\* One step of the stable sort with the comparison b.priority.cmp(&a.priority):
\* x, which came after every element of sorted in the input, goes behind
\* the elements whose priority is higher or the same.
insert(sorted, x) ==
    LET k == Cardinality({n \in DOMAIN sorted : sorted[n].priority >= x.priority})
    IN  SubSeq(sorted, 1, k) \o <<x>> \o SubSeq(sorted, k + 1, Len(sorted))

\* sorted.sort_by(|a, b| b.priority.cmp(&a.priority)): slice::sort_by is stable.
RECURSIVE sort_by(_)
sort_by(seq) ==
    IF seq = <<>> THEN <<>>
    ELSE insert(sort_by(SubSeq(seq, 1, Len(seq) - 1)), seq[Len(seq)])

\* The blocks "## name\ncontent" joined by "\n\n---\n\n".
RECURSIVE join(_)
join(blocks) ==
    IF blocks = <<>> THEN <<>>
    ELSE IF Len(blocks) = 1 THEN blocks[1]
    ELSE blocks[1] \o <<"---">> \o join(Tail(blocks))

get_all_enabled_instructions_unsorted(store, db_ok) ==
    LET sorted == SelectSeq(store.instructions, LAMBDA i : i.enabled)
    IN  IF ~db_ok THEN Err(<<"Failed to get instructions: ">>)
        ELSE Ok(join([k \in DOMAIN sorted |->
                        <<"## ", sorted[k].name, sorted[k].content>>]))

\* db_ok: the query get_all_instructions succeeds.
get_all_enabled_instructions(store, db_ok) ==
    LET sorted == sort_by(SelectSeq(store.instructions, LAMBDA i : i.enabled))
    IN  IF ~db_ok THEN Err(<<"Failed to get instructions: ">>)
        ELSE Ok(join([k \in DOMAIN sorted |->
                        <<"## ", sorted[k].name, sorted[k].content>>]))

(***************************************************************************)
(* Tool calls over stores with up to MaxInstructions instructions of any   *)
(* priority and enablement, and agents whose reference lists hold          *)
(* duplicate, unknown and disabled ids.                                    *)
(***************************************************************************)
\* Number of instructions a store of ToolSpec holds at most.
MaxInstructions == 2

\* Number of lines a run of ToolSpec reads.
MaxToolLines == 1

InstructionIds == <<"i1", "i2", "i3">>
InstructionNames == <<"Style", "Safety", "Tests">>
InstructionContents == <<"X", "Y", "Z">>
InstructionCategories == <<"CodeStyle", "Security", "Testing">>
LowPriority == 3
HighPriority == 9

Instruction(k, priority, enabled) ==
    [id |-> InstructionIds[k], name |-> InstructionNames[k], icon_emoji |-> "I",
     category |-> InstructionCategories[k], content |-> InstructionContents[k],
     priority |-> priority, enabled |-> enabled]

\* The instruction tables of the model: n rows, ids in insertion order, each
\* row with either priority, enabled or not.
InstructionLists ==
    UNION {{[k \in 1..n |-> Instruction(k, prio[k], en[k])] :
              prio \in [1..n -> {LowPriority, HighPriority}], en \in [1..n -> BOOLEAN]} :
           n \in 0..MaxInstructions}

\* Agent a1 with the given reference lists.
ToolAgent(skill_refs, instruction_refs) ==
    [Agent1 EXCEPT !.skills = skill_refs, !.instructions = instruction_refs]

ToolAgents ==
    {ToolAgent(<<>>, <<>>),
     ToolAgent(<<"s1">>, <<"i1">>),
     ToolAgent(<<"s2", "s9">>, <<"i1", "i1">>),
     ToolAgent(<<"s9", "s1">>, <<"i9", "i2">>)}

ToolStores ==
    {[agents |-> <<a>>, skills |-> <<Skill1, Skill2>>, instructions |-> l] :
        a \in ToolAgents, l \in InstructionLists}

ToolCall(name, arguments) == Message("1", "tools/call", ObjectParams(name, Missing, arguments))
ResourceRead(uri) == Message("1", "resources/read", ObjectParams(Missing, uri, NoArguments))

ToolLines ==
    {ToolCall("list_agents", NoArguments), ToolCall("list_skills", NoArguments),
     ToolCall("get_instructions", NoArguments),
     ToolCall("get_instructions", [NoArguments EXCEPT !.category = "SECURITY"])}
    \cup {ToolCall(t, [NoArguments EXCEPT !.agent_id = a]) :
            t \in {"get_agent", "apply_agent"}, a \in {"a1", "zz", Missing}}
    \cup {ToolCall("get_skill", [NoArguments EXCEPT !.skill_id = s]) :
            s \in {"s1", "zz", Missing}}
    \cup {ResourceRead(uri) :
            uri \in {AllInstructionsUri, "prompt-forge://agents/a1",
                     "prompt-forge://agents/zz", "prompt-forge://agents/Coder",
                     "prompt-forge://skills/s1"}}

ToolInit ==
    /\ pc = "start"
    /\ nread = 0
    /\ cur = TextLine("empty")
    /\ resp = NoResponse
    /\ ran = "none"
    /\ out = <<>>
    /\ wrote = NoLine
    /\ errOut = <<>>
    /\ loaded = "none"
    /\ agents = <<>>
    /\ skills = <<>>
    /\ instructions = <<>>
    /\ db \in ToolStores
    /\ toolRan = "none"
    /\ applied = NoApplied
    /\ combined = NoneOpt
    /\ inits = 0
    /\ md = <<>>
    /\ parsed = NoneOpt
    /\ AppStateNew(Threads)
    /\ NoInstruction

ToolReadLine == ReadLineFrom(ToolLines, MaxToolLines)

\* The desktop application runs the command get_all_enabled_instructions
\* on the store.
GetAllEnabledInstructions ==
    /\ \E db_ok \in BOOLEAN : combined' = Some(get_all_enabled_instructions(db, db_ok))
    /\ UNCHANGED <<pc, nread, cur, resp, ran, out, wrote, errOut, loaded,
                   agents, skills, instructions, db, toolRan, applied, inits,
                   md, parsed, appvars, instrvars>>

ToolNext ==
    \/ Startup
    \/ ToolReadLine
    \/ ReadEof
    \/ HandleRequest
    \/ WriteResponse
    \/ GetAllEnabledInstructions

ToolSpec == ToolInit /\ [][ToolNext]_vars

(***************************************************************************)
(* get_instructions calls over instruction tables whose rows have either   *)
(* of two categories                                                       *)
(***************************************************************************)
CategoryLists ==
    UNION {{[k \in 1..n |-> [Instruction(k, prio[k], en[k]) EXCEPT !.category = cat[k]]] :
              prio \in [1..n -> {LowPriority, HighPriority}],
              en \in [1..n -> BOOLEAN],
              cat \in [1..n -> {"CodeStyle", "Security"}]} :
           n \in 0..MaxInstructions}

CategoryStores ==
    {[agents |-> <<Agent1>>, skills |-> <<Skill1>>, instructions |-> l] :
        l \in CategoryLists}

\* The category arguments: none, two tokens in other letter case, the name
\* of a variant (which is no token), a token that no row has.
CategoryArguments == {Missing, "SECURITY", "Code_Style", "CodeStyle", "testing"}

CategoryLines ==
    {ToolCall("get_instructions", [NoArguments EXCEPT !.category = c]) :
        c \in CategoryArguments}

CategoryInit ==
    /\ pc = "start"
    /\ nread = 0
    /\ cur = TextLine("empty")
    /\ resp = NoResponse
    /\ ran = "none"
    /\ out = <<>>
    /\ wrote = NoLine
    /\ errOut = <<>>
    /\ loaded = "none"
    /\ agents = <<>>
    /\ skills = <<>>
    /\ instructions = <<>>
    /\ db \in CategoryStores
    /\ toolRan = "none"
    /\ applied = NoApplied
    /\ combined = NoneOpt
    /\ inits = 0
    /\ md = <<>>
    /\ parsed = NoneOpt
    /\ AppStateNew(Threads)
    /\ NoInstruction

CategoryReadLine == ReadLineFrom(CategoryLines, MaxToolLines)

CategoryNext ==
    \/ Startup
    \/ CategoryReadLine
    \/ ReadEof
    \/ HandleRequest
    \/ WriteResponse

CategorySpec == CategoryInit /\ [][CategoryNext]_vars

(***************************************************************************)
(* Lookups by identifier over snapshots in which the name of one record    *)
(* reads like the id of another and two records have the same name up to   *)
(* letter case and separators                                              *)
(***************************************************************************)
NamedAgent(id, name) ==
    [Agent2 EXCEPT !.id = id, !.name = name]
NamedSkill(id, name) ==
    [Skill1 EXCEPT !.id = id, !.name = name]

LookupAgents == {NamedAgent("a1", "A2"), NamedAgent("a2", "Coder"), NamedAgent("a3", "CODER")}
LookupSkills ==
    {NamedSkill("s1", "Code Review"), NamedSkill("code-review", "deploy"),
     NamedSkill("s3", "code_review")}

\* The orders in which a table holds the records of the set R.
Orders(R) ==
    {s \in [1..Cardinality(R) -> R] : \A j, k \in DOMAIN s : j # k => s[j] # s[k]}

LookupStores ==
    {[agents |-> a, skills |-> s, instructions |-> <<>>] :
        a \in Orders(LookupAgents), s \in Orders(LookupSkills)}

LookupLines ==
    {ToolCall(t, [NoArguments EXCEPT !.agent_id = a]) :
        t \in {"get_agent", "apply_agent"}, a \in {"a2", "A2", "coder", "zz"}}
    \cup {ToolCall("get_skill", [NoArguments EXCEPT !.skill_id = s]) :
            s \in {"code-review", "Code_Review", "s3", "zz"}}

LookupInit ==
    /\ pc = "start"
    /\ nread = 0
    /\ cur = TextLine("empty")
    /\ resp = NoResponse
    /\ ran = "none"
    /\ out = <<>>
    /\ wrote = NoLine
    /\ errOut = <<>>
    /\ loaded = "none"
    /\ agents = <<>>
    /\ skills = <<>>
    /\ instructions = <<>>
    /\ db \in LookupStores
    /\ toolRan = "none"
    /\ applied = NoApplied
    /\ combined = NoneOpt
    /\ inits = 0
    /\ md = <<>>
    /\ parsed = NoneOpt
    /\ AppStateNew(Threads)
    /\ NoInstruction

LookupReadLine == ReadLineFrom(LookupLines, MaxToolLines)

LookupNext ==
    \/ Startup
    \/ LookupReadLine
    \/ ReadEof
    \/ HandleRequest
    \/ WriteResponse

LookupSpec == LookupInit /\ [][LookupNext]_vars

(***************************************************************************)
(* SkillSpec: the same server over stores whose one agent lists every      *)
(* sequence of up to MaxSkillRefs skill references, in a snapshot holding  *)
(* one skill of each definition variant, each enabled or not.              *)
(***************************************************************************)
MaxSkillRefs == 2

VariantSkill(id, name, icon, type, template, enabled) ==
    [Skill1 EXCEPT !.id = id, !.name = name, !.icon_emoji = icon,
                   !.definition = [type |-> type, template |-> template],
                   !.enabled = enabled]

SkillTables ==
    {<<VariantSkill("s1", "Code Review", "S", "prompt", "Review {{code}}", e1),
       VariantSkill("s2", "deploy", "D", "tool", "", e2),
       VariantSkill("s3", "release", "W", "workflow", "", e3)>> :
        e1 \in BOOLEAN, e2 \in BOOLEAN, e3 \in BOOLEAN}

SkillRefs == {"s1", "s2", "s3", "s9"}

SkillRefLists == UNION {[1..n -> SkillRefs] : n \in 0..MaxSkillRefs}

SkillStores ==
    {[agents |-> <<ToolAgent(refs, <<"i1">>)>>, skills |-> t,
      instructions |-> <<Instr1, Instr2>>] :
        refs \in SkillRefLists, t \in SkillTables}

SkillLines ==
    {ToolCall("apply_agent", [NoArguments EXCEPT !.agent_id = a]) : a \in {"a1", "zz"}}

SkillInit ==
    /\ pc = "start"
    /\ nread = 0
    /\ cur = TextLine("empty")
    /\ resp = NoResponse
    /\ ran = "none"
    /\ out = <<>>
    /\ wrote = NoLine
    /\ errOut = <<>>
    /\ loaded = "none"
    /\ agents = <<>>
    /\ skills = <<>>
    /\ instructions = <<>>
    /\ db \in SkillStores
    /\ toolRan = "none"
    /\ applied = NoApplied
    /\ combined = NoneOpt
    /\ inits = 0
    /\ md = <<>>
    /\ parsed = NoneOpt
    /\ AppStateNew(Threads)
    /\ NoInstruction

SkillReadLine == ReadLineFrom(SkillLines, MaxToolLines)

SkillNext ==
    \/ Startup
    \/ SkillReadLine
    \/ ReadEof
    \/ HandleRequest
    \/ WriteResponse

SkillSpec == SkillInit /\ [][SkillNext]_vars

(***************************************************************************)
(* parser.rs: parse_agent_from_markdown.  A text is the sequence of its    *)
(* lines, a line the pair of the heading prefix it starts with ("# ",      *)
(* "## ", "### " or none) and the rest of the line.                        *)
(***************************************************************************)
Line(prefix, rest) == [prefix |-> prefix, rest |-> rest]

Rule == Line("", "---")

trim(s) ==
    CASE s = " Code Assistant " -> "Code Assistant"
      [] s = " Overview " -> "Overview"
      [] s = "  " -> ""
      [] OTHER -> s

is_blank(line) == line.prefix = "" /\ trim(line.rest) = ""

\* str::trim on a run of whole lines: the blank lines at both ends go
trim_lines(content) ==
    LET keep == {i \in DOMAIN content : ~is_blank(content[i])}
    IN  IF keep = {} THEN <<>>
        ELSE SubSeq(content, first(keep),
                    CHOOSE i \in keep : \A j \in keep : j <= i)

DefaultPersonality ==
    [tone |-> "friendly", verbosity |-> "balanced", traits |-> <<"helpful", "clear">>]

DefaultAgent ==
    [name |-> "New Agent",
     description |-> <<Line("", "A helpful AI assistant")>>,
     avatar_emoji |-> "robot",
     personality |-> DefaultPersonality,
     system_prompt |-> <<Line("", "You are a helpful AI assistant.")>>,
     tags |-> <<>>]

split_once(s) ==
    CASE s = "tone: professional" -> Some(<<"tone", "professional">>)
      [] OTHER -> NoneOpt

RECURSIVE parse_personality_lines(_, _)
parse_personality_lines(personality, content) ==
    IF content = <<>> THEN personality
    ELSE LET line == to_lowercase(trim(Head(content).rest))
             kv == IF Head(content).prefix = "" THEN split_once(line) ELSE NoneOpt
             keyed == IF kv.some /\ kv.v[1] = "tone"
                      THEN [personality EXCEPT !.tone = kv.v[2]]
                      ELSE IF kv.some /\ kv.v[1] = "verbosity"
                      THEN [personality EXCEPT !.verbosity = kv.v[2]]
                      ELSE personality
             listed == IF Head(content).prefix = "" /\ line = "- analytical"
                       THEN [keyed EXCEPT !.traits = Append(@, "analytical")]
                       ELSE keyed
         IN  parse_personality_lines(listed, Tail(content))

parse_personality_section(agent, content) ==
    [agent EXCEPT !.personality = parse_personality_lines(DefaultPersonality, content)]

\* Regex [\p{Emoji}] find: of the model's characters only '#' has the property
emoji_find(content) ==
    IF \E i \in DOMAIN content : content[i].prefix # "" THEN Some("#") ELSE NoneOpt

apply_section_to_agent(agent, section, section_content) ==
    LET content == trim_lines(section_content)
    IN  CASE section \in {"description", "about", "overview"} ->
                [agent EXCEPT !.description = content]
          [] section \in {"personality", "character", "traits"} ->
                parse_personality_section(agent, content)
          [] section \in {"system prompt", "instructions", "prompt", "system"} ->
                [agent EXCEPT !.system_prompt = content]
          [] section \in {"skills", "capabilities", "abilities"} -> agent
          [] section \in {"model", "settings", "configuration"} -> agent
          [] section \in {"avatar", "emoji", "icon"} ->
                IF emoji_find(content).some
                THEN [agent EXCEPT !.avatar_emoji = emoji_find(content).v]
                ELSE agent
          [] OTHER ->
                IF content # <<>>
                THEN [agent EXCEPT !.system_prompt =
                          @ \o <<Line("", ""), Line("## ", section)>> \o content]
                ELSE agent

\* the loop over text.lines(): the agent, the current section and its content
RECURSIVE parse_lines(_, _, _, _)
parse_lines(agent, current_section, section_content, lines) ==
    IF lines = <<>>
    THEN IF current_section # ""
         THEN apply_section_to_agent(agent, current_section, section_content)
         ELSE agent
    ELSE LET line == Head(lines)
         IN  IF line.prefix = "# "
             THEN parse_lines([agent EXCEPT !.name = trim(line.rest)],
                              current_section, section_content, Tail(lines))
             ELSE IF line.prefix = "## "
             THEN parse_lines(IF current_section # ""
                              THEN apply_section_to_agent(agent, current_section,
                                                          section_content)
                              ELSE agent,
                              to_lowercase(trim(line.rest)), <<>>, Tail(lines))
             ELSE parse_lines(agent, current_section, Append(section_content, line),
                              Tail(lines))

\* str::find("---") in one line: what stands before and after it on that line
find_rule(line) ==
    CASE line = Rule -> Some([before |-> <<>>, after |-> <<>>])
      [] line = Line("", "description: pros --- cons") ->
            Some([before |-> <<Line("", "description: pros")>>,
                  after |-> <<Line("", "cons")>>])
      [] OTHER -> NoneOpt

\* text[3..].find("---"): the first line after the opening that holds "---", 0 if none
yaml_end(text) == first({i \in DOMAIN text : i > 1 /\ find_rule(text[i]).some})

\* text[3..yaml_end + 3]
yaml_content(text) ==
    SubSeq(text, 2, yaml_end(text) - 1) \o find_rule(text[yaml_end(text)]).v.before

\* full_text[content_start..]
after_yaml(text) ==
    find_rule(text[yaml_end(text)]).v.after
    \o SubSeq(text, yaml_end(text) + 1, Len(text))

\* one "key: value" line as serde_yaml reads it: the key, the value and its type
yaml_entry(line) ==
    CASE line = Line("", "name: Writer") ->
            Some([key |-> "name", type |-> "string", v |-> "Writer"])
      [] line = Line("", "name: 42") ->
            Some([key |-> "name", type |-> "number", v |-> "42"])
      [] line = Line("", "avatar: W") ->
            Some([key |-> "avatar", type |-> "string", v |-> "W"])
      [] line = Line("", "emoji: E") ->
            Some([key |-> "emoji", type |-> "string", v |-> "E"])
      [] line = Line("", "model: sonnet") ->
            Some([key |-> "model", type |-> "string", v |-> "sonnet"])
      [] line = Line("", "temperature: 0.9") ->
            Some([key |-> "temperature", type |-> "number", v |-> "0.9"])
      [] line = Line("", "description: pros") ->
            Some([key |-> "description", type |-> "string", v |-> "pros"])
      [] line = Line("", "tags: [x]") ->
            Some([key |-> "tags", type |-> "sequence", v |-> "x"])
      [] line = Line("", "personality: {tone: calm}") ->
            Some([key |-> "personality", type |-> "mapping", v |-> "calm"])
      [] line = Line("", "Tone: Professional") ->
            Some([key |-> "Tone", type |-> "string", v |-> "Professional"])
      [] OTHER -> NoneOpt

\* serde_yaml::from_str::<Value>: a mapping of the entries, Null for no line at all
from_str_yaml(content) ==
    IF content = <<>> THEN Ok([kind |-> "null", entries |-> <<>>])
    ELSE IF /\ \A i \in DOMAIN content : yaml_entry(content[i]).some
            /\ \A i, j \in DOMAIN content :
                  i # j => yaml_entry(content[i]).v.key # yaml_entry(content[j]).v.key
    THEN Ok([kind |-> "mapping",
             entries |-> [i \in DOMAIN content |-> yaml_entry(content[i]).v]])
    ELSE Err("yaml")

RECURSIVE apply_yaml_entries(_, _)
apply_yaml_entries(agent, entries) ==
    IF entries = <<>> THEN agent
    ELSE LET e == Head(entries)
             next ==
                CASE e.key = "name" /\ e.type = "string" -> [agent EXCEPT !.name = e.v]
                  [] e.key = "description" /\ e.type = "string" ->
                        [agent EXCEPT !.description = <<Line("", e.v)>>]
                  [] e.key \in {"avatar", "emoji"} /\ e.type = "string" ->
                        [agent EXCEPT !.avatar_emoji = e.v]
                  [] e.key = "tags" /\ e.type = "sequence" ->
                        [agent EXCEPT !.tags = <<e.v>>]
                  [] e.key = "personality" /\ e.type = "mapping" ->
                        [agent EXCEPT !.personality.tone = e.v]
                  [] OTHER -> agent
         IN  apply_yaml_entries(next, Tail(entries))

parse_agent_from_yaml_value(yaml, full_text) ==
    LET agent == IF yaml.kind = "mapping"
                 THEN apply_yaml_entries(DefaultAgent, yaml.entries)
                 ELSE DefaultAgent
    IN  IF yaml_end(full_text) # 0
        THEN [agent EXCEPT !.system_prompt = trim_lines(after_yaml(full_text))]
        ELSE agent

has_frontmatter(text) ==
    /\ text # <<>>
    /\ text[1] = Rule
    /\ yaml_end(text) # 0
    /\ from_str_yaml(yaml_content(text)).ok

parse_agent_from_markdown(text) ==
    IF has_frontmatter(text)
    THEN Ok(parse_agent_from_yaml_value(from_str_yaml(yaml_content(text)).v, text))
    ELSE LET agent == parse_lines(DefaultAgent, "", <<>>, text)
         IN  Ok(IF agent.system_prompt = <<>>
                   \/ agent.system_prompt = DefaultAgent.system_prompt
                THEN [agent EXCEPT !.system_prompt = text]
                ELSE agent)

(***************************************************************************)
(* ParserSpec: parse_agent_from_markdown applied to every text made of a   *)
(* head and up to MaxSections sections.                                    *)
(***************************************************************************)
MaxSections == 2

Heads ==
    {<<>>,
     <<Line("# ", "Bot")>>,
     <<Line("# ", " Code Assistant "), Line("", "")>>,
     <<Line("", "intro"), Line("# ", "Bot")>>,
     <<Rule>>,
     <<Rule, Line("", "name: Writer"), Rule>>,
     <<Rule, Line("", "Tone: Professional"), Line("", "- Analytical"), Rule>>}

SectionNames ==
    {"Description", "ABOUT", " Overview ", "Personality", "System Prompt", "Notes", ""}

Bodies ==
    {<<>>,
     <<Line("", "Helps.")>>,
     <<Line("", ""), Line("", "Helps."), Line("", "  ")>>,
     <<Line("", "Helps."), Line("### ", "Usage"), Line("", "Runs tests.")>>,
     <<Line("", "Helps."), Line("# ", "Other"), Line("", "Runs tests.")>>,
     <<Line("", "Tone: Professional"), Line("", "- Analytical")>>}

Sections == {<<Line("## ", n)>> \o b : n \in SectionNames, b \in Bodies}

Texts(max) ==
    {h \o concat(t) : h \in Heads, t \in UNION {[1..n -> Sections] : n \in 0..max}}

ParserInit ==
    /\ pc = "start"
    /\ nread = 0
    /\ cur = TextLine("empty")
    /\ resp = NoResponse
    /\ ran = "none"
    /\ out = <<>>
    /\ wrote = NoLine
    /\ errOut = <<>>
    /\ loaded = "none"
    /\ agents = <<>>
    /\ skills = <<>>
    /\ instructions = <<>>
    /\ db = Store1
    /\ toolRan = "none"
    /\ applied = NoApplied
    /\ combined = NoneOpt
    /\ inits = 0
    /\ md \in Texts(MaxSections)
    /\ parsed = NoneOpt
    /\ AppStateNew(Threads)
    /\ NoInstruction

ParseAgentFromMarkdown ==
    /\ parsed = NoneOpt
    /\ parsed' = Some(parse_agent_from_markdown(md))
    /\ UNCHANGED <<pc, nread, cur, resp, ran, out, wrote, errOut, loaded,
                   agents, skills, instructions, db, toolRan, applied, combined,
                   inits, md, appvars, instrvars>>

ParserNext == ParseAgentFromMarkdown

ParserSpec == ParserInit /\ [][ParserNext]_vars

(***************************************************************************)
(* FrontmatterSpec: parse_agent_from_markdown applied to texts that open   *)
(* with a frontmatter block of up to MaxYamlLines entries with distinct    *)
(* keys, closed by a "---" line and followed by a tail.                    *)
(***************************************************************************)
MaxYamlLines == 2

YamlLines ==
    {Line("", "name: Writer"), Line("", "name: 42"), Line("", "avatar: W"),
     Line("", "emoji: E"), Line("", "model: sonnet"), Line("", "temperature: 0.9"),
     Line("", "description: pros --- cons"), Line("", "tags: [x]"),
     Line("", "personality: {tone: calm}")}

yaml_key(line) ==
    IF yaml_entry(line).some THEN yaml_entry(line).v.key ELSE "description"

Blocks(max) ==
    {b \in UNION {[1..n -> YamlLines] : n \in 0..max} :
        \A i, j \in DOMAIN b : i # j => yaml_key(b[i]) # yaml_key(b[j])}

Tails ==
    {<<>>,
     <<Line("", ""), Line("", "You write."), Line("", "")>>,
     <<Line("", "You write."), Rule, Line("", "More.")>>,
     <<Line("# ", "Bot"), Line("## ", "Description"), Line("", "Helps.")>>}

FrontTexts(max) == {<<Rule>> \o b \o <<Rule>> \o t : b \in Blocks(max), t \in Tails}

FrontInit ==
    /\ pc = "start"
    /\ nread = 0
    /\ cur = TextLine("empty")
    /\ resp = NoResponse
    /\ ran = "none"
    /\ out = <<>>
    /\ wrote = NoLine
    /\ errOut = <<>>
    /\ loaded = "none"
    /\ agents = <<>>
    /\ skills = <<>>
    /\ instructions = <<>>
    /\ db = Store1
    /\ toolRan = "none"
    /\ applied = NoApplied
    /\ combined = NoneOpt
    /\ inits = 0
    /\ md \in FrontTexts(MaxYamlLines)
    /\ parsed = NoneOpt
    /\ AppStateNew(Threads)
    /\ NoInstruction

FrontmatterSpec == FrontInit /\ [][ParserNext]_vars

(***************************************************************************)
(* LiveSpec: the transport loop over a short alphabet of lines, with the   *)
(* fairness the code gives: run() is one sequential thread, so the step    *)
(* that is due is taken; the read at the head of the loop returns because  *)
(* the input stream is finite (a line, the end of input, or an error).     *)
(* Writes to the store by the application are under no obligation.         *)
(***************************************************************************)
MaxLiveLines == 2

LiveLines ==
    {TextLine("empty"), TextLine("blank"), TextLine("garbage"),
     Message("1", "ping", AbsentParams),
     Message(Missing, "initialized", AbsentParams),
     Message(Missing, "notifications/reload", AbsentParams),
     Message("2", "shutdown", AbsentParams),
     Message("1", "tools/call",
             ObjectParams("apply_agent", Missing, [NoArguments EXCEPT !.agent_id = "coder"])),
     Message("2", "resources/read", ObjectParams(Missing, AllInstructionsUri, NoArguments))}

LiveReadLine == ReadLineFrom(LiveLines, MaxLiveLines)

LiveNext ==
    \/ Startup
    \/ StoreWrite
    \/ LiveReadLine
    \/ ReadEof
    \/ ReadFail
    \/ SkipEmpty
    \/ ParseError
    \/ HandleRequest
    \/ WriteResponse
    \/ WriteFail

LiveSpec ==
    /\ Init
    /\ [][LiveNext]_vars
    /\ WF_vars(Startup)
    /\ WF_vars(LiveReadLine \/ ReadEof \/ ReadFail)
    /\ WF_vars(SkipEmpty \/ ParseError \/ HandleRequest)
    /\ WF_vars(WriteResponse \/ WriteFail)

(***************************************************************************)
(* DbSpec: the category column of the instructions table (src-tauri/src/   *)
(* db.rs), written by insert_instruction and update_instruction and read   *)
(* back by get_instruction, for every category and for rows whose text was *)
(* not written by this program.                                            *)
(***************************************************************************)
InstructionCategory ==
    {"General", "CodeStyle", "Communication", "Workflow", "Security", "Testing",
     "Documentation", "Custom"}

\* format!("{:?}", category): the name of the variant
variant_name(cat) ==
    CASE cat = "General" -> "General"
      [] cat = "CodeStyle" -> "CodeStyle"
      [] cat = "Communication" -> "Communication"
      [] cat = "Workflow" -> "Workflow"
      [] cat = "Security" -> "Security"
      [] cat = "Testing" -> "Testing"
      [] cat = "Documentation" -> "Documentation"
      [] cat = "Custom" -> "Custom"

db_category_by_variant_name(cat) == variant_name(cat)

\* db.rs category_to_string
db_category_to_string(cat) ==
    CASE cat = "General" -> "general"
      [] cat = "CodeStyle" -> "code_style"
      [] cat = "Communication" -> "communication"
      [] cat = "Workflow" -> "workflow"
      [] cat = "Security" -> "security"
      [] cat = "Testing" -> "testing"
      [] cat = "Documentation" -> "documentation"
      [] cat = "Custom" -> "custom"

string_to_category(s) ==
    CASE s = "code_style" -> "CodeStyle"
      [] s = "communication" -> "Communication"
      [] s = "workflow" -> "Workflow"
      [] s = "security" -> "Security"
      [] s = "testing" -> "Testing"
      [] s = "documentation" -> "Documentation"
      [] s = "custom" -> "Custom"
      [] OTHER -> "General"

\* texts of the column that no category is written as
ForeignTokens == {"", "CodeStyle", "codestyle", "code-style", "SECURITY", "General", "other"}

DbInstructions ==
    {[Instr1 EXCEPT !.category = c, !.enabled = e] :
        c \in InstructionCategory, e \in BOOLEAN}

DbInit ==
    /\ pc = "start"
    /\ nread = 0
    /\ cur = TextLine("empty")
    /\ resp = NoResponse
    /\ ran = "none"
    /\ out = <<>>
    /\ wrote = NoLine
    /\ errOut = <<>>
    /\ loaded = "none"
    /\ agents = <<>>
    /\ skills = <<>>
    /\ instructions = <<>>
    /\ db = Store1
    /\ toolRan = "none"
    /\ applied = NoApplied
    /\ combined = NoneOpt
    /\ inits = 0
    /\ md = <<>>
    /\ parsed = NoneOpt
    /\ AppStateNew(Threads)
    /\ instruction \in DbInstructions
    /\ row \in {NoneOpt} \cup {Some(s) : s \in ForeignTokens}
    /\ fetched = NoneOpt

InsertInstruction ==
    /\ row = NoneOpt
    /\ row' = Some(db_category_to_string(instruction.category))
    /\ UNCHANGED <<servervars, appvars, instruction, fetched>>

UpdateInstruction ==
    /\ row.some
    /\ \E c \in InstructionCategory :
          /\ instruction' = [instruction EXCEPT !.category = c]
          /\ row' = Some(db_category_to_string(c))
    /\ fetched' = NoneOpt
    /\ UNCHANGED <<servervars, appvars>>

GetInstruction ==
    /\ row.some
    /\ fetched' = Some(string_to_category(row.v))
    /\ UNCHANGED <<servervars, appvars, instruction, row>>

DbNext == InsertInstruction \/ UpdateInstruction \/ GetInstruction

DbSpec == DbInit /\ [][DbNext]_vars

(***************************************************************************)
(* Instruction files (src-tauri/src/parser.rs): an instruction written by  *)
(* export_instruction_to_markdown_text and read by                         *)
(* parse_instruction_from_markdown.  A frontmatter line "key: value" is a  *)
(* record of its key and its value as written.                             *)
(***************************************************************************)
\* u8::MAX, the largest priority an Instruction can hold
MaxPriority == 255

StringEntry(key, s) == [key |-> key, string |-> s]
NumberEntry(key, n) == [key |-> key, number |-> n]
BoolEntry(key, b) == [key |-> key, bool |-> b]
TagsEntry(tags) == [key |-> "tags", sequence |-> tags]

\* the line 'key: "' followed by what of the value stands before three dashes
CutEntry(key) == [key |-> key, unterminated |-> TRUE]

is_entry(item) == "key" \in DOMAIN item

\* s.find("---") and s.contains('"') on the strings of the model
has_dashes(s) == s = "pros --- cons"
has_quote(s) == s = "Say \"hi\""

DefaultInstruction ==
    [name |-> "New Instruction", description |-> "Custom instruction set",
     icon_emoji |-> "clipboard", category |-> "General", content |-> <<>>,
     priority |-> 5, tags |-> <<>>, enabled |-> TRUE]

export_instruction_to_markdown_text(i) ==
    <<Rule,
      StringEntry("name", i.name),
      StringEntry("description", i.description),
      StringEntry("icon", i.icon_emoji),
      StringEntry("category", variant_name(i.category)),
      NumberEntry("priority", i.priority),
      BoolEntry("enabled", i.enabled)>>
    \o (IF i.tags # <<>> THEN <<TagsEntry(i.tags)>> ELSE <<>>)
    \o <<Rule, Line("", "")>>
    \o i.content

\* the line holds "---"
holds_rule(item) ==
    IF is_entry(item)
    THEN "string" \in DOMAIN item /\ has_dashes(item.string)
    ELSE item = Rule

\* text[3..].find("---")
instruction_yaml_end(text) == first({i \in DOMAIN text : i > 1 /\ holds_rule(text[i])})

\* text[3..yaml_end + 3]
instruction_yaml_content(text) ==
    LET end == instruction_yaml_end(text)
    IN  SubSeq(text, 2, end - 1)
        \o (IF is_entry(text[end]) THEN <<CutEntry(text[end].key)>> ELSE <<>>)

\* serde_yaml::from_str::<Value>: a mapping of the lines read, or an error
from_str_instruction_yaml(content) ==
    IF \A k \in DOMAIN content :
          /\ is_entry(content[k])
          /\ "unterminated" \notin DOMAIN content[k]
          /\ "string" \in DOMAIN content[k] => ~has_quote(content[k].string)
    THEN Ok(content)
    ELSE Err("yaml")

category_of_yaml(v) ==
    LET s == to_lowercase(v)
    IN  CASE s \in {"code_style", "codestyle"} -> "CodeStyle"
          [] s = "communication" -> "Communication"
          [] s = "workflow" -> "Workflow"
          [] s = "security" -> "Security"
          [] s = "testing" -> "Testing"
          [] s = "documentation" -> "Documentation"
          [] s = "custom" -> "Custom"
          [] OTHER -> "General"

RECURSIVE apply_instruction_entries(_, _)
apply_instruction_entries(i, entries) ==
    IF entries = <<>> THEN i
    ELSE LET e == Head(entries)
             string == "string" \in DOMAIN e
             next ==
                CASE e.key = "name" /\ string -> [i EXCEPT !.name = e.string]
                  [] e.key = "description" /\ string ->
                        [i EXCEPT !.description = e.string]
                  [] e.key \in {"icon", "emoji"} /\ string ->
                        [i EXCEPT !.icon_emoji = e.string]
                  [] e.key = "category" /\ string ->
                        [i EXCEPT !.category = category_of_yaml(e.string)]
                  [] e.key = "priority" /\ "number" \in DOMAIN e ->
                        [i EXCEPT !.priority = e.number % (MaxPriority + 1)]
                  [] e.key = "tags" /\ "sequence" \in DOMAIN e ->
                        [i EXCEPT !.tags = e.sequence]
                  [] e.key = "enabled" /\ "bool" \in DOMAIN e ->
                        [i EXCEPT !.enabled = e.bool]
                  [] OTHER -> i
         IN  apply_instruction_entries(next, Tail(entries))

\* str::trim on a run of lines of an instruction file
trim_items(content) ==
    LET keep == {k \in DOMAIN content : is_entry(content[k]) \/ ~is_blank(content[k])}
    IN  IF keep = {} THEN <<>>
        ELSE SubSeq(content, first(keep),
                    CHOOSE k \in keep : \A j \in keep : j <= k)

parse_instruction_from_yaml_value(yaml, full_text) ==
    LET i == apply_instruction_entries(DefaultInstruction, yaml)
        end == instruction_yaml_end(full_text)
    IN  IF end # 0 /\ ~is_entry(full_text[end])
        THEN [i EXCEPT !.content = trim_items(SubSeq(full_text, end + 1, Len(full_text)))]
        ELSE i

parse_instruction_from_markdown(text) ==
    IF /\ text # <<>>
       /\ text[1] = Rule
       /\ instruction_yaml_end(text) # 0
       /\ from_str_instruction_yaml(instruction_yaml_content(text)).ok
    THEN Ok(parse_instruction_from_yaml_value(
                from_str_instruction_yaml(instruction_yaml_content(text)).v, text))
    ELSE LET titles == {k \in DOMAIN text :
                           ~is_entry(text[k]) /\ text[k].prefix = "# "}
             content == SelectSeq(text, LAMBDA item :
                                            is_entry(item) \/ item.prefix # "# ")
         IN  Ok([DefaultInstruction EXCEPT
                    !.name = IF titles = {} THEN @
                             ELSE trim(text[CHOOSE k \in titles :
                                               \A j \in titles : j <= k].rest),
                    !.content = trim_items(content)])

(***************************************************************************)
(* FileSpec: every instruction of FileInstructions exported and the text   *)
(* parsed back.                                                            *)
(***************************************************************************)
FileNames == {"Style", "pros --- cons", "Say \"hi\""}

FileContents ==
    {<<>>, <<Line("", "Be kind."), Rule, Line("# ", "More"), Line("", "")>>}

FileInstructions ==
    [name : FileNames, description : {"Rules"}, icon_emoji : {"I"},
     category : InstructionCategory, content : FileContents,
     priority : 0..MaxPriority, tags : {<<>>, <<"x">>}, enabled : BOOLEAN]

FileInit ==
    /\ pc = "start"
    /\ nread = 0
    /\ cur = TextLine("empty")
    /\ resp = NoResponse
    /\ ran = "none"
    /\ out = <<>>
    /\ wrote = NoLine
    /\ errOut = <<>>
    /\ loaded = "none"
    /\ agents = <<>>
    /\ skills = <<>>
    /\ instructions = <<>>
    /\ db = Store1
    /\ toolRan = "none"
    /\ applied = NoApplied
    /\ combined = NoneOpt
    /\ inits = 0
    /\ md = <<>>
    /\ parsed = NoneOpt
    /\ AppStateNew(Threads)
    /\ instruction \in FileInstructions
    /\ row = NoneOpt
    /\ fetched = NoneOpt

ExportInstructionToMarkdownText ==
    /\ md = <<>>
    /\ md' = export_instruction_to_markdown_text(instruction)
    /\ UNCHANGED <<pc, nread, cur, resp, ran, out, wrote, errOut, loaded, agents,
                   skills, instructions, db, toolRan, applied, combined, inits,
                   parsed, appvars, instrvars>>

ParseInstructionFromMarkdown ==
    /\ md # <<>>
    /\ parsed = NoneOpt
    /\ parsed' = Some(parse_instruction_from_markdown(md))
    /\ UNCHANGED <<pc, nread, cur, resp, ran, out, wrote, errOut, loaded, agents,
                   skills, instructions, db, toolRan, applied, combined, inits,
                   md, appvars, instrvars>>

FileNext == ExportInstructionToMarkdownText \/ ParseInstructionFromMarkdown

FileSpec == FileInit /\ [][FileNext]_vars

(***************************************************************************)
(* AppSpec: the three commands called from the threads of Threads in any   *)
(* interleaving; AppFairSpec: with fairness; AppSerialSpec: the same       *)
(* commands called one after another.                                      *)
(***************************************************************************)
AppInit ==
    /\ pc = "start"
    /\ nread = 0
    /\ cur = TextLine("empty")
    /\ resp = NoResponse
    /\ ran = "none"
    /\ out = <<>>
    /\ wrote = NoLine
    /\ errOut = <<>>
    /\ loaded = "none"
    /\ agents = <<>>
    /\ skills = <<>>
    /\ instructions = <<>>
    /\ db = Store1
    /\ toolRan = "none"
    /\ applied = NoApplied
    /\ combined = NoneOpt
    /\ inits = 0
    /\ md = <<>>
    /\ parsed = NoneOpt
    /\ \E callers \in {Threads, {1}} : AppStateNew(callers)
    /\ NoInstruction

AppCommand(t, max) ==
    \/ Invoke(t, max)
    \/ GetMcpStatus(t)
    \/ StartMcpServer(t)
    \/ StopMcpServer(t)

AppNextWithin(max) ==
    \/ \E t \in Threads : AppCommand(t, max)
    \/ ChildExit

AppNext == AppNextWithin(MaxCalls)

AppSpec == AppInit /\ [][AppNext]_vars

\* both threads call; every thread that can take a step of its command does so,
\* while the child may run on for ever
AppFairInit == AppInit /\ \A t \in Threads : threads[t].may_call

AppFairNext == AppNextWithin(MaxFairCalls)

AppFairSpec ==
    /\ AppFairInit
    /\ [][AppFairNext]_vars
    /\ \A t \in Threads : WF_vars(AppCommand(t, MaxFairCalls))

\* the commands called one after another, from thread 1 alone
AppSerialInit == AppInit /\ \A t \in Threads : threads[t].may_call <=> t = 1

AppSerialSpec == AppSerialInit /\ [][AppNext]_vars

\* Number of lines written to stdout in answer to input line n.
Written(n) == Cardinality({i \in DOMAIN out : out[i] = n})

\* cur has been read and decodes as a JsonRpcRequest.
Decodes == nread > 0 /\ cur.kind = "object" /\ from_str_ok(cur)

\* cur decodes to a notification: its id member is absent or null.
NotificationLine == Decodes /\ cur.id \in {Missing, JsonNull}

\* cur decodes to a request: it carries an id.
RequestLine == Decodes /\ cur.id \notin {Missing, JsonNull}

\* The loop has finished with cur and has not stopped on an I/O failure.
Finished == nread > 0 /\ pc \in {"read", "done"}

\* C1: for a line that decodes to a message without an id, whatever its
\* method and whether or not its handler fails, no line is written to stdout:
\* none is pending, none was written, and the loop never reaches the write.
C1_NotificationNoOutput ==
    NotificationLine =>
        /\ pc # "write"
        /\ resp = NoResponse
        /\ wrote = NoLine
        /\ Written(nread) = 0

\* A notification whose handler failed (tools/call without params) has been
\* processed, after an earlier request was answered.
C1_Witness ==
    /\ pc = "read"
    /\ cur = Message(Missing, "tools/call", AbsentParams)
    /\ ran = "tools/call"
    /\ out = <<1>>
    /\ nread = 2

\* C2: once the loop has finished with a line that carries an id, exactly
\* one line has been written for it; that line has the id of the request and
\* exactly one of the members result and error.  Before that no line has been
\* written for it.
C2_RequestOneResponse ==
    RequestLine =>
        /\ Finished =>
              /\ Written(nread) = 1
              /\ "id" \in wrote.members
              /\ wrote.id = cur.id
              /\ ("result" \in wrote.members) # ("error" \in wrote.members)
              /\ wrote.result.some # wrote.error.some
        /\ pc \in {"dispatch", "write"} => Written(nread) = 0 /\ wrote = NoLine

\* A request with id "2" has been answered with an error, after a request
\* with another id.
C2_Witness ==
    /\ pc = "read"
    /\ nread = 2
    /\ out = <<1, 2>>
    /\ cur.id = "2"
    /\ wrote.id = "2"
    /\ "error" \in wrote.members

\* cur is a non-blank line that does not decode as a JsonRpcRequest.
UndecodableLine == nread > 0 /\ cur.kind \in {"garbage", "object"} /\ ~from_str_ok(cur)

\* C3: once the loop has finished with a non-blank line that fails to decode,
\* exactly one line has been written for it, with error code -32700 and the
\* member id present with the value null, and handle_request was not called.
C3_ParseErrorNullId ==
    (UndecodableLine /\ Finished) =>
        /\ Written(nread) = 1
        /\ wrote.error.some
        /\ wrote.error.v.code = ParseErrorCode
        /\ "id" \in wrote.members
        /\ wrote.id = JsonNull
        /\ ran = "none"

\* C4: processing is strictly sequential.  The lines on stdout answer input
\* lines in increasing order, at most one each; when a line has just been
\* read, everything written answers an earlier line and no response is
\* pending; a response is pending only between the handler and its write, so
\* a line is read only after the previous response was written and flushed.
C4_Sequential ==
    /\ \A i, j \in DOMAIN out : i < j => out[i] < out[j]
    /\ \A i \in DOMAIN out : out[i] <= nread
    /\ pc \in {"start", "read", "dispatch", "done"} => resp = NoResponse
    /\ pc = "dispatch" => (\A i \in DOMAIN out : out[i] < nread) /\ wrote = NoLine
    /\ pc = "dispatch" => ran = "none"
    /\ pc = "write" => resp # NoResponse /\ Written(nread) = 0

\* The third line has been read after the first two were answered.
C4_Witness ==
    /\ pc = "dispatch"
    /\ nread = 3
    /\ out = <<1, 2>>
    /\ cur.id = "1"

\* The result of handle_request for cur is an error of the envelope:
\* Method-Not-Found or Invalid-Params.
EnvelopeErrorLine ==
    /\ Decodes
    /\ \/ cur.method \notin KnownMethods
       \/ /\ cur.method \in {"tools/call", "resources/read"}
          /\ cur.params.kind \in {"absent", "null"}
       \/ cur.method = "tools/call" /\ cur.params.name \in {Missing, NonString}
       \/ cur.method = "resources/read" /\ cur.params.uri \in {Missing, NonString}

\* C5: envelope errors are never fatal.  The step that meets a line yielding
\* Parse-Error, Method-Not-Found or Invalid-Params leaves the collections as
\* they were and goes on to write the response (or, for a notification, to
\* read the next line); the write of an error response returns to reading;
\* and the loop stops only from the read (end of input, stdin failure) or
\* from a write that failed.
C5_EnvelopeErrorsNotFatal ==
    [][/\ (pc = "dispatch" /\ (UndecodableLine \/ cur.kind = "blank" \/ EnvelopeErrorLine)) =>
            /\ pc' = IF NotificationLine THEN "read" ELSE "write"
            /\ Snapshot' = Snapshot
            /\ NotificationLine \/ resp'.error.some
       /\ (pc = "write" /\ resp.error.some /\ out' # out) => pc' = "read"
       /\ (pc' = "failed" /\ pc # "failed") =>
            \/ pc = "read"
            \/ pc = "write" /\ out' = out
       /\ (pc' = "done" /\ pc # "done") => pc = "read"
      ]_vars

\* After a Parse-Error and a Method-Not-Found response the loop has read and
\* answered a third line.
C5_Witness ==
    /\ pc = "read"
    /\ nread = 3
    /\ out = <<1, 2, 3>>
    /\ cur.method = "tools/call"
    /\ wrote.error.some
    /\ wrote.error.v.code = InvalidParamsCode

\* The step about to be taken handles a notifications/reload message.
ReloadStep == pc = "dispatch" /\ Decodes /\ cur.method = "notifications/reload"

\* C6: whatever the outcome of the load, a notifications/reload leaves the
\* server with either the complete triple held before it or the complete
\* triple of the store, never a mix of the two.
C6_ReloadNeverMixes ==
    [][ReloadStep => (Snapshot' = Snapshot \/ Snapshot' = db)]_vars

\* C7: a load that fails, at startup or on reload, leaves all three
\* collections as they were before the attempt (empty at startup), and the
\* server keeps running.
C7_FailedLoadRetainsSnapshot ==
    [][((pc = "start" \/ ReloadStep) /\ loaded' \notin {"ok", "none"}) =>
            /\ Snapshot' = Snapshot
            /\ pc' \in {"read", "write"}
      ]_vars

\* C8: a notifications/reload without an id runs its handler and writes
\* nothing; when the load succeeds the collections are those of the store
\* from then on.  No other step after the startup changes the collections,
\* and a resources/list request is answered from the collections held when
\* it is handled: so requests before the reload are answered from the
\* previous snapshot, requests after it from the new one.
C8_ReloadNotificationTakesEffect ==
    [][/\ (ReloadStep /\ NotificationLine) =>
            /\ ran' = "notifications/reload"
            /\ pc' = "read"
            /\ out' = out /\ wrote' = NoLine /\ resp' = NoResponse
            /\ loaded' = "ok" => Snapshot' = db
       /\ (pc # "start" /\ ~ReloadStep) => Snapshot' = Snapshot
       /\ (pc = "dispatch" /\ RequestLine /\ cur.method = "resources/list") =>
            /\ resp'.result.some
            /\ Len(resp'.result.v.resources) = Len(agents) + 1
            /\ \A i \in DOMAIN agents :
                  /\ resp'.result.v.resources[i].uri = agent_uri(agents[i].id)
                  /\ resp'.result.v.resources[i].name = agents[i].name
      ]_vars

\* A notifications/reload without an id, read after a request was answered,
\* has run its handler and loaded the second store content; nothing was
\* written for it.
C8_Witness ==
    /\ pc = "read"
    /\ nread = 2
    /\ out = <<1>>
    /\ cur = Message(Missing, "notifications/reload", AbsentParams)
    /\ ran = "notifications/reload"
    /\ loaded = "ok"
    /\ Snapshot = Store2
    /\ "Loaded agents, skills, instructions from database" \in {errOut[i] : i \in DOMAIN errOut}

\* Messages with which run reports a failed load.
LoadFailureMessages ==
    {"Warning: Failed to load data from database", "MCP server will start with empty data"}

\* C9: a load that fails during notifications/reload is not surfaced, with
\* or without an id: no error response is built or written for the message;
\* and the failure is reported on stderr.
C9_ReloadFailureLoggedNotSurfaced ==
    (ran = "notifications/reload" /\ loaded \notin {"ok", "none"}) =>
        /\ ~resp.error.some
        /\ ~wrote.error.some
        /\ \E i \in DOMAIN errOut : errOut[i] \in LoadFailureMessages

\* C10: a request whose method is not exactly one of the registered names
\* is routed to no handler and is answered with an error of code -32601
\* whose message names the method, and with no result.
C10_UnknownMethodNotFound ==
    (Decodes /\ cur.method \notin KnownMethods) =>
        /\ pc # "dispatch" => ran = "not_found"
        /\ pc = "write" =>
              /\ resp.error.some /\ ~resp.result.some
              /\ resp.error.v.code = MethodNotFoundCode
              /\ resp.error.v.message = <<"Method not found: ", cur.method>>
        /\ (RequestLine /\ Finished) =>
              /\ wrote.members = {"jsonrpc", "id", "error"}
              /\ wrote.error.some
              /\ wrote.error.v.code = MethodNotFoundCode
              /\ wrote.error.v.message = <<"Method not found: ", cur.method>>

\* The request "Ping" has been answered with Method-Not-Found.
C10_Witness ==
    /\ pc = "read"
    /\ cur = Message("1", "Ping", AbsentParams)
    /\ ran = "not_found"
    /\ wrote.error.some
    /\ wrote.error.v.code = MethodNotFoundCode
    /\ wrote.error.v.message = <<"Method not found: ", "Ping">>

\* cur is a tools/call request that carries an id.
ToolsCallRequest == RequestLine /\ cur.method = "tools/call"

\* cur is a tools/call request without params (absent or null), or whose
\* params have no name or a name that is not a string.
NamelessToolsCall ==
    /\ ToolsCallRequest
    /\ \/ cur.params.kind \in {"absent", "null"}
       \/ cur.params.name \in {Missing, NonString}

\* C11: a tools/call request whose params are absent, or whose params.name
\* is absent or not a string, is answered with an error of code -32602 and
\* no result, and no tool body is run for it.
C11_NamelessToolsCallInvalidParams ==
    NamelessToolsCall =>
        /\ toolRan = "none"
        /\ pc = "write" =>
              /\ resp.error.some /\ ~resp.result.some
              /\ resp.error.v.code = InvalidParamsCode
        /\ Finished =>
              /\ wrote.members = {"jsonrpc", "id", "error"}
              /\ wrote.error.v.code = InvalidParamsCode

\* A tools/call request whose name is a number has been answered with
\* Invalid-Params.
C11_Witness ==
    /\ pc = "read"
    /\ cur = Message("1", "tools/call", ObjectParams(NonString, Missing, NoArguments))
    /\ ran = "tools/call"
    /\ toolRan = "none"
    /\ wrote.members = {"jsonrpc", "id", "error"}
    /\ wrote.error.v.code = InvalidParamsCode
    /\ wrote.error.v.message = <<"Missing tool name">>

\* cur is a tools/call request whose name is a string that names no tool.
UnknownToolCall ==
    /\ ToolsCallRequest
    /\ cur.params.kind = "object"
    /\ cur.params.name \notin {Missing, NonString}
    /\ cur.params.name \notin {ToolNames[i] : i \in DOMAIN ToolNames}

\* C12: a tools/call request whose name is a string that is none of the six
\* tool names is answered with a result and no error; the result is a tool
\* result with isError true whose text names the unknown tool.
C12_UnknownToolIsToolError ==
    UnknownToolCall =>
        /\ pc # "dispatch" => toolRan = "unknown"
        /\ pc = "write" =>
              /\ resp.result.some /\ ~resp.error.some
              /\ resp.result.v.isError = Some(TRUE)
              /\ resp.result.v.text = <<"Unknown tool: ", cur.params.name>>
        /\ Finished =>
              /\ wrote.members = {"jsonrpc", "id", "result"}
              /\ wrote.result.v.isError = Some(TRUE)
              /\ wrote.result.v.text = <<"Unknown tool: ", cur.params.name>>

\* The request for the tool no_such_tool has been answered with a tool
\* result flagged isError.
C12_Witness ==
    /\ pc = "read"
    /\ cur = Message("2", "tools/call", ObjectParams("no_such_tool", Missing, NoArguments))
    /\ toolRan = "unknown"
    /\ wrote.members = {"jsonrpc", "id", "result"}
    /\ wrote.result.v.isError = Some(TRUE)
    /\ wrote.result.v.text = <<"Unknown tool: ", "no_such_tool">>

\* cur is a tools/call request that names one of the six tools.
ValidToolCall ==
    /\ ToolsCallRequest
    /\ cur.params.kind = "object"
    /\ cur.params.name \in {ToolNames[i] : i \in DOMAIN ToolNames}

\* Some agent of the snapshot has the id x, or the name x up to letter case.
AgentKnown(x) ==
    \E n \in DOMAIN agents :
        agents[n].id = x \/ to_lowercase(agents[n].name) = to_lowercase(x)

\* Some skill of the snapshot has the id x, or the name x up to letter case
\* and to the difference between space, underscore and hyphen.
SkillKnown(x) ==
    \E n \in DOMAIN skills :
        \/ skills[n].id = x
        \/ hyphenate(to_lowercase(skills[n].name)) = hyphenate(to_lowercase(x))

\* The body of the tool that cur names fails: the argument naming the
\* entity is missing, or the snapshot has no such entity.
ToolBodyFails ==
    \/ /\ cur.params.name \in {"get_agent", "apply_agent"}
       /\ \/ cur.params.arguments.agent_id \in {Missing, NonString}
          \/ ~AgentKnown(cur.params.arguments.agent_id)
    \/ /\ cur.params.name = "get_skill"
       /\ \/ cur.params.arguments.skill_id \in {Missing, NonString}
          \/ ~SkillKnown(cur.params.arguments.skill_id)

\* C13: a tools/call request that names one of the six tools is always
\* answered with a result and no error; the tool result has isError true
\* when the tool body failed (entity not found, argument missing) and has
\* no isError otherwise.
C13_ToolFailureIsToolResult ==
    ValidToolCall =>
        /\ pc = "write" =>
              /\ resp.result.some /\ ~resp.error.some
              /\ resp.result.v.tag = "ToolResult"
              /\ ToolBodyFails => resp.result.v.isError = Some(TRUE)
              /\ ~ToolBodyFails => resp.result.v.isError = NoneOpt
        /\ Finished =>
              /\ wrote.members = {"jsonrpc", "id", "result"}
              /\ ToolBodyFails => wrote.result.v.isError = Some(TRUE)
              /\ ~ToolBodyFails => wrote.result.v.isError = NoneOpt

\* apply_agent was called for an identifier that no agent of the loaded
\* snapshot has, and the answer written is a tool result with isError.
C13_Witness ==
    /\ pc = "read"
    /\ cur = ToolCall("apply_agent", [NoArguments EXCEPT !.agent_id = "zz"])
    /\ agents # <<>>
    /\ toolRan = "apply_agent"
    /\ wrote.members = {"jsonrpc", "id", "result"}
    /\ wrote.result.v.isError = Some(TRUE)
    /\ wrote.result.v.text
         = <<"Agent not found: ", "zz", "Use list_agents to see available agents.">>

\* The step that handles cur, an apply_agent call for the identifier x.
ApplyAgentStep(x) ==
    /\ pc = "dispatch"
    /\ Decodes
    /\ cur.method = "tools/call"
    /\ cur.params.kind = "object"
    /\ cur.params.name = "apply_agent"
    /\ cur.params.arguments.agent_id = x
    /\ pc' # "dispatch"

\* C14: an apply_agent call for an identifier that was already answered
\* since the last load gives the same result again, whatever requests were
\* handled in between and whatever was written to the store meanwhile.
C14_ApplyAgentDeterministic ==
    [][\A x \in AgentIdentifiers :
          (ApplyAgentStep(x) /\ applied[x].some /\ pc' = "write") =>
              /\ resp'.result.some
              /\ resp'.result = Some(applied[x].v.result.v)]_vars

\* A second apply_agent call for "coder" has been answered with the text
\* of the first, after the store was rewritten and without a reload.
C14_Witness ==
    /\ pc = "write"
    /\ nread >= 2
    /\ cur = Message("2", "tools/call",
                     ObjectParams("apply_agent", Missing,
                                  [NoArguments EXCEPT !.agent_id = "coder"]))
    /\ applied["coder"].some
    /\ applied["coder"].v.line < nread
    /\ resp.result = Some(applied["coder"].v.result.v)
    /\ resp.result.v.isError = NoneOpt
    /\ Snapshot # db
    /\ Snapshot \in Stores

\* Number of places of seq that hold x.
Count(seq, x) == Cardinality({i \in DOMAIN seq : seq[i] = x})

\* The part of an apply_agent text from the line heading to the end (empty
\* if the text has no such line).
From(text, heading) ==
    LET i == first({n \in DOMAIN text : text[n] = heading})
    IN  IF i = 0 THEN <<>> ELSE SubSeq(text, i, Len(text))

\* The global-instructions section and the attached-instructions section
\* of an apply_agent text.
GlobalSection(text) == From(text, "## Global Instructions")
AttachedSection(text) ==
    LET rest == From(text, "## Instructions")
    IN  SubSeq(rest, 1, Len(rest) - Len(GlobalSection(text)))

\* cur is an apply_agent request for the id of an agent of the snapshot and
\* its response, the composed text, is about to be written.
Composed ==
    /\ pc = "write"
    /\ ValidToolCall
    /\ cur.params.name = "apply_agent"
    /\ \E n \in DOMAIN agents : agents[n].id = cur.params.arguments.agent_id

\* The agent that the apply_agent request cur names by id.
ComposedAgent ==
    agents[first({n \in DOMAIN agents : agents[n].id = cur.params.arguments.agent_id})]

ComposedText == resp.result.v.text

\* C15 as stated: in the composed text every enabled instruction whose id
\* is in the agent's instructionRefs has its content once in the attached
\* section and never in the global section, and every other enabled
\* instruction has its content once in the global section and never in the
\* attached one.
C15_SectionsPartitionOnce ==
    Composed =>
        \A n \in DOMAIN instructions :
            LET i == instructions[n]
            IN  i.enabled =>
                  IF contains(ComposedAgent.instructions, i.id)
                  THEN /\ Count(AttachedSection(ComposedText), i.content) = 1
                       /\ Count(GlobalSection(ComposedText), i.content) = 0
                  ELSE /\ Count(GlobalSection(ComposedText), i.content) = 1
                       /\ Count(AttachedSection(ComposedText), i.content) = 0

\* C15, amended: an enabled instruction whose id is in instructionRefs has
\* its content in the attached section once for each place of the list
\* that holds its id (once when the id is listed once) and never in the
\* global section; every other enabled instruction has its content exactly
\* once in the global section and never in the attached one.
C15_SectionsPartitionPerRef ==
    Composed =>
        \A n \in DOMAIN instructions :
            LET i == instructions[n]
            IN  i.enabled =>
                  IF contains(ComposedAgent.instructions, i.id)
                  THEN /\ Count(AttachedSection(ComposedText), i.content)
                            = Count(ComposedAgent.instructions, i.id)
                       /\ Count(GlobalSection(ComposedText), i.content) = 0
                  ELSE /\ Count(GlobalSection(ComposedText), i.content) = 1
                       /\ Count(AttachedSection(ComposedText), i.content) = 0

\* The agent lists i1 twice; i1 and i2 are enabled: the composed text has
\* the content of i1 twice in the attached section and the content of i2
\* once in the global section.
C15_Witness ==
    /\ Composed
    /\ ComposedAgent.instructions = <<"i1", "i1">>
    /\ Len(instructions) = 2
    /\ instructions[1].enabled /\ instructions[2].enabled
    /\ Count(AttachedSection(ComposedText), "X") = 2
    /\ Count(GlobalSection(ComposedText), "X") = 0
    /\ Count(GlobalSection(ComposedText), "Y") = 1
    /\ Count(AttachedSection(ComposedText), "Y") = 0

\* The attached-skills section of an apply_agent text.
SkillsSection(text) ==
    LET rest == From(text, "## Attached Skills")
        after == IF From(text, "## Instructions") # <<>>
                 THEN From(text, "## Instructions") ELSE GlobalSection(text)
    IN  SubSeq(rest, 1, Len(rest) - Len(after))

\* The places of the reference list refs whose id is the id of an enabled
\* record of table.
Resolving(refs, table) ==
    {k \in DOMAIN refs : \E n \in DOMAIN table : table[n].id = refs[k] /\ table[n].enabled}

BlockNames(text) == [k \in 1..((Len(text) + 1) \div 4) |-> text[4 * (k - 1) + 2]]

\* The contents of the blocks of a combiner text, in the order of the text.
BlockContents(text) == [k \in 1..((Len(text) + 1) \div 4) |-> text[4 * (k - 1) + 3]]

\* The combiner has returned its text, CombinedText.
CombinerReturned == combined.some /\ combined.v.ok
CombinedText == combined.v.v

\* The priority that the store gives the instruction of the given name.
PriorityOf(name) ==
    db.instructions[first({n \in DOMAIN db.instructions :
                              db.instructions[n].name = name})].priority

\* The contents of the entries of a global-instructions section, in the
\* order of the text.
EntryContents(section) ==
    SelectSeq(section, LAMBDA t : \E k \in DOMAIN InstructionContents :
                                      t = InstructionContents[k])

\* The enabled instructions of the snapshot that the agent does not list.
Unattached(agent) ==
    SelectSeq(instructions, LAMBDA i : i.enabled /\ ~contains(agent.instructions, i.id))

\* C17: the combiner lists instructions by descending priority, while the
\* global section of apply_agent lists the enabled instructions that the
\* agent does not refer to in the order of the snapshot.
C17_CombinerSortedGlobalUnsorted ==
    /\ CombinerReturned =>
          \A j, k \in DOMAIN BlockNames(CombinedText) :
              j < k => PriorityOf(BlockNames(CombinedText)[j])
                          >= PriorityOf(BlockNames(CombinedText)[k])
    /\ Composed =>
          EntryContents(GlobalSection(ComposedText))
             = [k \in DOMAIN Unattached(ComposedAgent) |->
                    Unattached(ComposedAgent)[k].content]

\* The store holds the enabled instructions i1 of priority 3 and i2 of
\* priority 9 in this order and the agent refers to neither: the combiner
\* has returned i2 before i1, apply_agent has i1 before i2 in its global
\* section.
C17_Witness ==
    /\ Composed
    /\ CombinerReturned
    /\ ComposedAgent.instructions = <<>>
    /\ instructions = db.instructions
    /\ instructions = <<Instruction(1, LowPriority, TRUE), Instruction(2, HighPriority, TRUE)>>
    /\ BlockNames(CombinedText) = <<"Safety", "Style">>
    /\ BlockContents(CombinedText) = <<"Y", "X">>
    /\ EntryContents(GlobalSection(ComposedText)) = <<"X", "Y">>

\* The enabled instructions of the store, in the order of the store.
EnabledInStore == SelectSeq(db.instructions, LAMBDA i : i.enabled)

\* C18: the text of the combiner has one block for each enabled
\* instruction of the store and no other block, each block with the content
\* of its instruction, and two enabled instructions of the same priority
\* are in the order they have in the store.
C18_CombinerStablePermutation ==
    CombinerReturned =>
        LET N == BlockNames(CombinedText)
            E == EnabledInStore
        IN  /\ Len(N) = Len(E)
            /\ \A k \in DOMAIN E :
                  /\ Count(N, E[k].name) = 1
                  /\ \A m \in DOMAIN N :
                        N[m] = E[k].name => BlockContents(CombinedText)[m] = E[k].content
            /\ \A n \in DOMAIN db.instructions :
                  ~db.instructions[n].enabled => Count(N, db.instructions[n].name) = 0
            /\ \A j, k \in DOMAIN E :
                  (j < k /\ E[j].priority = E[k].priority) =>
                      first({m \in DOMAIN N : N[m] = E[j].name})
                          < first({m \in DOMAIN N : N[m] = E[k].name})

\* The store holds i1 and i2, enabled and both of priority 9: the combiner
\* has returned i1 and then i2.
C18_Witness ==
    /\ CombinerReturned
    /\ db.instructions = <<Instruction(1, HighPriority, TRUE),
                           Instruction(2, HighPriority, TRUE)>>
    /\ BlockNames(CombinedText) = <<"Style", "Safety">>
    /\ CombinedText = <<"## ", "Style", "X", "---", "## ", "Safety", "Y">>

\* cur is a resources/read request whose params hold the uri, a string.
ResourceReadRequest ==
    /\ RequestLine
    /\ cur.method = "resources/read"
    /\ cur.params.kind = "object"
    /\ cur.params.uri \notin {Missing, NonString}

\* The names of the instructions of a markdown text, in the order of the text.
EntryNames(text) ==
    SelectSeq(text, LAMBDA t : \E k \in DOMAIN InstructionNames : t = InstructionNames[k])

\* C19: the text returned for the aggregate uri lists the enabled
\* instructions of the snapshot by descending priority, those of the same
\* priority in the order of the snapshot.
C19_AggregateByPriority ==
    (ResourceReadRequest /\ cur.params.uri = AllInstructionsUri /\ pc = "write") =>
        /\ resp.result.some
        /\ LET S == sort_by(SelectSeq(instructions, LAMBDA i : i.enabled))
           IN  EntryNames(resp.result.v.text) = [k \in DOMAIN S |-> S[k].name]

\* The uri of cur is neither the aggregate uri nor the agents prefix
\* followed by the id of an agent of the snapshot.
NoSuchResource ==
    /\ cur.params.uri # AllInstructionsUri
    /\ ~(/\ starts_with_agents(cur.params.uri)
         /\ \E n \in DOMAIN agents : agents[n].id = strip_prefix(cur.params.uri))

\* C20: a resources/read request for a uri that is neither the aggregate
\* uri nor the agents prefix followed by the id of an agent of the snapshot
\* is answered with an error of code -32602 whose message holds the uri, and
\* with no result.
C20_UnknownUriNotFound ==
    (ResourceReadRequest /\ NoSuchResource) =>
        /\ pc = "write" =>
              /\ resp.error.some /\ ~resp.result.some
              /\ resp.error.v.code = InvalidParamsCode
              /\ resp.error.v.message = <<"Resource not found: ", cur.params.uri>>
        /\ Finished =>
              /\ wrote.members = {"jsonrpc", "id", "error"}
              /\ wrote.error.v.code = InvalidParamsCode
              /\ wrote.error.v.message = <<"Resource not found: ", cur.params.uri>>

\* The uri names the agent a1 of the snapshot by its name, Coder: the
\* answer written is Resource-Not-Found with the uri.
C20_Witness ==
    /\ pc = "read"
    /\ cur = ResourceRead("prompt-forge://agents/Coder")
    /\ Len(agents) = 1
    /\ agents[1].id = "a1" /\ agents[1].name = "Coder"
    /\ ran = "resources/read"
    /\ wrote.members = {"jsonrpc", "id", "error"}
    /\ wrote.error.v.code = InvalidParamsCode
    /\ wrote.error.v.message = <<"Resource not found: ", "prompt-forge://agents/Coder">>

\* The response to cur, a request of the given method, is about to be written.
Pending(method) == pc = "write" /\ RequestLine /\ cur.method = method

\* The entries that resources/list gives for the snapshot.
Listed == handle_resources_list(Snapshot).v.resources

\* C21: resources/list answers with one entry per agent of the snapshot and
\* the aggregate entry; resources/read of each uri it lists, against the
\* same snapshot, gives contents of the mime type listed, and a
\* resources/read request for a listed uri is answered with a result.
C21_ListedResourcesReadable ==
    /\ Pending("resources/list") =>
          /\ resp.result.some
          /\ Len(resp.result.v.resources) = Len(agents) + 1
          /\ \A k \in DOMAIN resp.result.v.resources :
                LET r == resp.result.v.resources[k]
                    read == handle_resources_read(
                                Snapshot, ObjectParams(Missing, r.uri, NoArguments))
                IN  read.ok /\ read.v.uri = r.uri /\ read.v.mimeType = r.mimeType
    /\ (Pending("resources/read") /\ ResourceReadRequest) =>
          \A k \in DOMAIN Listed :
              Listed[k].uri = cur.params.uri =>
                  /\ resp.result.some /\ ~resp.error.some
                  /\ resp.result.v.mimeType = Listed[k].mimeType

\* The snapshot holds the agents a2 and a1; resources/read of the uri that
\* resources/list gives for a2 is answered with the agent as json.
C21_Witness ==
    /\ Pending("resources/read")
    /\ Len(agents) = 2
    /\ Len(Listed) = 3
    /\ Listed[1].uri = "prompt-forge://agents/a2"
    /\ cur.params.uri = Listed[1].uri
    /\ resp.result.some
    /\ resp.result.v.mimeType = "application/json"
    /\ resp.result.v.text = agent_json(Agent2)

\* The response to cur, a request for the tool of the given name, is about
\* to be written.
ToolPending(name) == pc = "write" /\ ValidToolCall /\ cur.params.name = name

\* The enabled instructions of the snapshot that the category argument c
\* selects: all of them if c is absent, else those whose category token is
\* c in lower case.
Selected(c) ==
    SelectSeq(instructions,
              LAMBDA i : /\ i.enabled
                         /\ \/ c = Missing
                            \/ category_to_string(i.category) = to_lowercase(c))

\* C22: the answer of get_instructions lists exactly the enabled
\* instructions that the category argument selects (all enabled ones when
\* it is absent), each once, in the order of the snapshot.
C22_InstructionsFilteredInOrder ==
    ToolPending("get_instructions") =>
        LET sel == Selected(cur.params.arguments.category)
            text == resp.result.v.text
        IN  /\ resp.result.v.isError = NoneOpt
            /\ EntryNames(text) = [k \in DOMAIN sel |-> sel[k].name]
            /\ \A n \in DOMAIN instructions :
                  ~instructions[n].enabled => Count(text, instructions[n].content) = 0
            /\ sel # <<>> =>
                  text = concat([k \in DOMAIN sel |->
                            <<"## ", sel[k].icon_emoji, sel[k].name, "(Priority: ",
                              ToString(sel[k].priority), "Category: ",
                              category_to_string(sel[k].category), sel[k].content,
                              "---">>])

\* The snapshot holds i1 of priority 3 and i2 of priority 9, both enabled
\* and of category Security; the call with category SECURITY lists i1
\* before i2.
C22_Witness ==
    /\ ToolPending("get_instructions")
    /\ cur.params.arguments.category = "SECURITY"
    /\ instructions = <<[Instruction(1, LowPriority, TRUE) EXCEPT !.category = "Security"],
                        Instruction(2, HighPriority, TRUE)>>
    /\ EntryNames(resp.result.v.text) = <<"Style", "Safety">>

\* C23: when the category argument of get_instructions selects no enabled
\* instruction of the snapshot, the request is answered with a result whose
\* tool result is the text "No instructions found." and has no isError.
C23_NoInstructionsFound ==
    (ToolsCallRequest /\ ValidToolCall /\ cur.params.name = "get_instructions"
       /\ Selected(cur.params.arguments.category) = <<>>) =>
        /\ pc = "write" =>
              /\ resp.result.some /\ ~resp.error.some
              /\ resp.result.v.text = <<"No instructions found.">>
              /\ resp.result.v.isError = NoneOpt
        /\ Finished =>
              /\ wrote.members = {"jsonrpc", "id", "result"}
              /\ wrote.result.v.text = <<"No instructions found.">>
              /\ wrote.result.v.isError = NoneOpt

\* The snapshot holds an enabled instruction of category CodeStyle; the
\* call with the category "CodeStyle", which is no category token, has been
\* answered with "No instructions found.".
C23_Witness ==
    /\ pc = "read"
    /\ cur = ToolCall("get_instructions", [NoArguments EXCEPT !.category = "CodeStyle"])
    /\ instructions = <<Instruction(1, LowPriority, TRUE)>>
    /\ toolRan = "get_instructions"
    /\ wrote.members = {"jsonrpc", "id", "result"}
    /\ wrote.result.v.text = <<"No instructions found.">>
    /\ wrote.result.v.isError = NoneOpt

\* The places of the agents / the skills of the snapshot whose id is x.
AgentsById(x) == {n \in DOMAIN agents : agents[n].id = x}
SkillsById(x) == {n \in DOMAIN skills : skills[n].id = x}

\* The places of the agents whose name is x up to letter case, and of the
\* skills whose name is x up to letter case, space, underscore and hyphen.
AgentsByName(x) ==
    {n \in DOMAIN agents : to_lowercase(agents[n].name) = to_lowercase(x)}
SkillsByName(x) ==
    {n \in DOMAIN skills :
        hyphenate(to_lowercase(skills[n].name)) = hyphenate(to_lowercase(x))}

\* The place that the resolution policy gives for the id matches I and the
\* name matches N: the id match if there is one, else the first name match
\* (0: none).
Resolved(I, N) == IF I # {} THEN first(I) ELSE first(N)

\* C24: get_agent, apply_agent and get_skill answer with the record whose
\* id is the identifier if there is one, wherever a record with a matching
\* name stands; only when no id matches do they answer with the first
\* record in snapshot order whose name matches, and with a tool error when
\* nothing matches.
C24_IdBeforeName ==
    /\ (ToolPending("get_agent") /\ cur.params.arguments.agent_id # Missing) =>
          LET x == cur.params.arguments.agent_id
              n == Resolved(AgentsById(x), AgentsByName(x))
          IN  IF n = 0 THEN resp.result.v.isError = Some(TRUE)
              ELSE /\ resp.result.v.isError = NoneOpt
                   /\ resp.result.v.text = agent_json(agents[n])
    /\ (ToolPending("apply_agent") /\ cur.params.arguments.agent_id # Missing) =>
          LET x == cur.params.arguments.agent_id
              n == Resolved(AgentsById(x), AgentsByName(x))
          IN  IF n = 0 THEN resp.result.v.isError = Some(TRUE)
              ELSE /\ resp.result.v.isError = NoneOpt
                   /\ resp.result.v.text[4] = agents[n].name
    /\ (ToolPending("get_skill") /\ cur.params.arguments.skill_id # Missing) =>
          LET x == cur.params.arguments.skill_id
              n == Resolved(SkillsById(x), SkillsByName(x))
          IN  IF n = 0 THEN resp.result.v.isError = Some(TRUE)
              ELSE /\ resp.result.v.isError = NoneOpt
                   /\ resp.result.v.text = skill_json(skills[n])

\* The first agent of the snapshot is a1, named A2, a later one has the id
\* a2: get_agent for "a2" is answered with the agent of id a2.
C24_Witness ==
    /\ ToolPending("get_agent")
    /\ cur.params.arguments.agent_id = "a2"
    /\ Len(agents) = 3
    /\ agents[1] = NamedAgent("a1", "A2")
    /\ AgentsByName("a2") = {1}
    /\ resp.result.v.isError = NoneOpt
    /\ resp.result.v.text = agent_json(NamedAgent("a2", "Coder"))

(***************************************************************************)
(* C25: there is no handshake ordering state.  The response to a request   *)
(* depends only on that request and the current snapshot, not on whether   *)
(* or how often initialize / initialized were handled before it (inits);   *)
(* initialize succeeds at any point of a session, any number of times,     *)
(* always with the same fixed capability descriptor.                       *)
(***************************************************************************)
Descriptor ==
    [tag |-> "InitializeResult", protocolVersion |-> "2024-11-05",
     capabilities |-> [tools |-> [listChanged |-> FALSE],
                       resources |-> [listChanged |-> FALSE, subscribe |-> FALSE]],
     serverInfo |-> [name |-> "prompt-forge", version |-> "0.1.0"]]

C25_NoHandshakeState ==
    /\ Pending("initialize") =>
          /\ resp.result = Some(Descriptor)
          /\ ~resp.error.some
          /\ resp.id = cur.id
    /\ (pc = "write" /\ RequestLine /\ cur.method # "notifications/reload") =>
          resp = handle_request(from_str(cur), Snapshot, db, "ok").response
    /\ Pending("notifications/reload") =>
          resp.result = Some([tag |-> "reloaded"])

C25_Witness ==
    /\ Pending("initialize")
    /\ inits = 3
    /\ nread = 3
    /\ resp.result = Some(Descriptor)

C25_WitnessUninitialized ==
    /\ Pending("tools/call")
    /\ inits = 0
    /\ nread > 1
    /\ toolRan = "apply_agent"
    /\ resp.result.some
    /\ resp.result.v.isError = NoneOpt

(***************************************************************************)
(* C26: a blank input line (empty, or consisting only of whitespace) is    *)
(* ignored: the step that disposes of it produces no response, runs no     *)
(* handler and leaves the snapshot unchanged, and no output line is ever   *)
(* written for it.                                                         *)
(***************************************************************************)
BlankLine == nread > 0 /\ cur.kind \in {"empty", "blank"}

C26_BlankLineIgnored ==
    [][(pc = "dispatch" /\ BlankLine) =>
          /\ pc' = "read"
          /\ resp' = NoResponse
          /\ UNCHANGED <<out, wrote, ran, toolRan, agents, skills, instructions>>]_vars

(***************************************************************************)
(* C27: in apply_agent's attached-skills section the emitted skills follow *)
(* the order of the agent's skillRefs list (not snapshot order), one entry *)
(* per reference that resolves to an enabled skill; the template text is   *)
(* emitted only for a skill whose definition variant is Prompt, a Tool or  *)
(* Workflow skill contributes its name line and no body text.              *)
(***************************************************************************)
ResolvedRefs(refs, table) ==
    SelectSeq(refs, LAMBDA r : \E n \in DOMAIN table : table[n].id = r /\ table[n].enabled)

SkillOf(id) == skills[first({n \in DOMAIN skills : skills[n].id = id /\ skills[n].enabled})]

Headings(section) == {p \in DOMAIN section : section[p] = "### "}

Nth(P, k) == CHOOSE p \in P : Cardinality({q \in P : q < p}) = k - 1

EntryEnd(section, k) ==
    IF k = Cardinality(Headings(section)) THEN Len(section) + 1
    ELSE Nth(Headings(section), k + 1)

C27_SkillsInRefOrder ==
    Composed =>
        LET section == SkillsSection(ComposedText)
            refs == ResolvedRefs(ComposedAgent.skills, skills)
        IN  /\ Cardinality(Headings(section)) = Len(refs)
            /\ \A k \in DOMAIN refs :
                  LET p == Nth(Headings(section), k)
                      skill == SkillOf(refs[k])
                      body == SubSeq(section, p + 3, EntryEnd(section, k) - 1)
                  IN  /\ section[p + 1] = skill.icon_emoji
                      /\ section[p + 2] = skill.name
                      /\ body = IF skill.definition.type = "prompt"
                                THEN <<skill.definition.template>> ELSE <<>>

C27_Witness ==
    /\ Composed
    /\ ComposedAgent.skills = <<"s3", "s1">>
    /\ \A n \in DOMAIN skills : skills[n].enabled
    /\ SkillsSection(ComposedText) =
          <<"## Attached Skills", "### ", "W", "release",
            "### ", "S", "Code Review", "Review {{code}}">>

(***************************************************************************)
(* C28: in apply_agent output each of the three sections (attached skills, *)
(* attached instructions, global instructions) is omitted, heading         *)
(* included, whenever it would contain no entry; in particular when every  *)
(* id in skillRefs (or instructionRefs) is missing from the snapshot or    *)
(* refers to a disabled record, the section heading does not appear.       *)
(***************************************************************************)
C28_EmptySectionsOmitted ==
    Composed =>
        /\ Resolving(ComposedAgent.skills, skills) = {} =>
              Count(ComposedText, "## Attached Skills") = 0
        /\ Resolving(ComposedAgent.instructions, instructions) = {} =>
              Count(ComposedText, "## Instructions") = 0
        /\ Unattached(ComposedAgent) = <<>> =>
              Count(ComposedText, "## Global Instructions") = 0

(***************************************************************************)
(* C29: every error response the server can emit, over any sequence of     *)
(* input lines, has a code in {-32700, -32601, -32602}: -32700 only for    *)
(* undecodable lines, -32601 only for unknown methods, -32602 only for     *)
(* malformed tools/call or resources/read params and resource-not-found;   *)
(* -32603 is never emitted.                                                *)
(***************************************************************************)
MalformedParams ==
    \/ /\ cur.method \in {"tools/call", "resources/read"}
       /\ cur.params.kind \in {"absent", "null"}
    \/ cur.method = "tools/call" /\ cur.params.name \in {Missing, NonString}
    \/ cur.method = "resources/read" /\ cur.params.uri \in {Missing, NonString}

ErrorCause(code) ==
    CASE code = -32700 -> nread > 0 /\ cur.kind # "empty" /\ ~from_str_ok(cur)
      [] code = -32601 -> Decodes /\ cur.method \notin KnownMethods
      [] code = -32602 ->
            /\ Decodes
            /\ \/ MalformedParams
               \/ cur.method = "resources/read" /\ NoSuchResource
      [] OTHER -> FALSE

AnswerOfCurrentLine ==
    pc = "read" /\ out # <<>> /\ out[Len(out)] = nread

C29_ErrorCodes ==
    /\ resp.error.some =>
          /\ resp.error.v.code \in {-32700, -32601, -32602}
          /\ ErrorCause(resp.error.v.code)
    /\ wrote.error.some =>
          /\ wrote.error.v.code \in {-32700, -32601, -32602}
          /\ AnswerOfCurrentLine => ErrorCause(wrote.error.v.code)

C29_Witness ==
    /\ AnswerOfCurrentLine
    /\ nread = 3
    /\ wrote.error.some
    /\ wrote.error.v.code = -32602
    /\ cur.method = "resources/read"
    /\ cur.params.uri = "prompt-forge://agents/Coder"
    /\ Len(agents) = 2

C29_WitnessParseError ==
    AnswerOfCurrentLine /\ wrote.error.some /\ wrote.error.v.code = -32700

C29_WitnessMethodNotFound ==
    /\ AnswerOfCurrentLine /\ wrote.error.some /\ wrote.error.v.code = -32601
    /\ cur.method = "Tools/List"

C29_WitnessMalformed ==
    /\ AnswerOfCurrentLine /\ wrote.error.some /\ wrote.error.v.code = -32602
    /\ cur.method = "tools/call"
    /\ cur.params.name = NonString

(***************************************************************************)
(* C30: parse_agent_from_markdown on text without YAML frontmatter sets    *)
(* the agent's name to the text of the '# ' title line and its description *)
(* to the trimmed content of the '## Description' section (also 'about' /  *)
(* 'overview'), independent of which other '## ' sections precede or       *)
(* follow it.  Read generously: the name is the text of some '# ' line,    *)
(* and the description is the trimmed content of some such section, its    *)
(* content being the lines after its heading up to the next '## ' line, or *)
(* up to the next heading line of either level.                            *)
(***************************************************************************)
TitleLines == {i \in DOMAIN md : md[i].prefix = "# "}

DescriptionSections ==
    {i \in DOMAIN md : /\ md[i].prefix = "## "
                       /\ to_lowercase(trim(md[i].rest)) \in
                              {"description", "about", "overview"}}

SectionEnd(i, prefixes) ==
    LET later == {j \in DOMAIN md : j > i /\ md[j].prefix \in prefixes}
    IN  IF later = {} THEN Len(md) + 1 ELSE first(later)

SectionContent(i, prefixes) == SubSeq(md, i + 1, SectionEnd(i, prefixes) - 1)

Parsed == parsed.some /\ ~has_frontmatter(md)

C30_NameAndDescription ==
    (Parsed /\ TitleLines # {} /\ DescriptionSections # {}) =>
        /\ \E i \in TitleLines : parsed.v.v.name = trim(md[i].rest)
        /\ \E i \in DescriptionSections :
              \/ parsed.v.v.description = trim_lines(SectionContent(i, {"## "}))
              \/ parsed.v.v.description = trim_lines(SectionContent(i, {"# ", "## "}))

(***************************************************************************)
(* C31: parse_agent_from_markdown on text that begins with a YAML          *)
(* frontmatter block takes the agent's name and avatar from the            *)
(* frontmatter keys 'name' and 'avatar' (and ignores unknown keys such as  *)
(* model / temperature without failing), and uses the trimmed text after   *)
(* the closing '---' as the system prompt.  The block is what stands       *)
(* between the opening line and the next "---" line; name and avatar are   *)
(* read here as keys with string values, and avatar as the only avatar key *)
(* of the block.                                                           *)
(***************************************************************************)
ClosingRule == first({i \in DOMAIN md : i > 1 /\ md[i] = Rule})

FrontmatterBlock == SubSeq(md, 2, ClosingRule - 1)

HasBlock == md # <<>> /\ md[1] = Rule /\ ClosingRule # 0

StringValue(key) ==
    IF \E i \in DOMAIN FrontmatterBlock :
          FrontmatterBlock[i] = Line("", "name: Writer") /\ key = "name"
    THEN Some("Writer")
    ELSE IF \E i \in DOMAIN FrontmatterBlock :
               FrontmatterBlock[i] = Line("", "avatar: W") /\ key = "avatar"
    THEN Some("W")
    ELSE NoneOpt

C31_FrontmatterNameAvatarPrompt ==
    (parsed.some /\ HasBlock) =>
        /\ parsed.v.ok
        /\ StringValue("name").some => parsed.v.v.name = StringValue("name").v
        /\ (StringValue("avatar").some /\ ~contains(FrontmatterBlock, Line("", "emoji: E")))
              => parsed.v.v.avatar_emoji = StringValue("avatar").v
        /\ parsed.v.v.system_prompt = trim_lines(SubSeq(md, ClosingRule + 1, Len(md)))

(***************************************************************************)
(* C32: for any finite input stream the transport loop terminates: every   *)
(* handler returns, every line is consumed once, and on end of input run() *)
(* returns Ok without having written anything beyond the responses owed to *)
(* the lines read (at most one line of output per line of input, each for  *)
(* a request or an undecodable line, none pending at the end).             *)
(***************************************************************************)
Returned == pc \in {"done", "failed"}

OwesResponse == RequestLine \/ (nread > 0 /\ cur.kind # "empty" /\ ~from_str_ok(cur))

NothingBeyondOwed ==
    /\ Len(out) <= nread
    /\ \A i, j \in DOMAIN out : i < j => out[i] < out[j]
    /\ (out # <<>> /\ out[Len(out)] = nread) => OwesResponse
    /\ pc = "done" => resp = NoResponse

C33_OnlyReloadChangesSnapshot ==
    [][(pc # "start" /\ ~ReloadStep) =>
            /\ agents' = agents
            /\ skills' = skills
            /\ instructions' = instructions
      ]_vars

C33_Witness ==
    /\ pc = "write"
    /\ nread = 3
    /\ ran = "tools/call"
    /\ toolRan = "get_skill"
    /\ resp.result.some
    /\ resp.result.v.isError = Some(TRUE)
    /\ Snapshot = Store2
    /\ db = Store1

(***************************************************************************)
(* C34: a message whose id member is present with the JSON value null is   *)
(* classified exactly like a message with no id member: its handler runs   *)
(* and no response line is written for it.                                 *)
(***************************************************************************)
NullIdLine == Decodes /\ cur.id = JsonNull

C34_NullIdIsNotification ==
    NullIdLine =>
        /\ from_str(cur) = from_str([cur EXCEPT !.id = Missing])
        /\ pc # "write"
        /\ pc \in {"read", "done", "failed"} =>
              /\ ran = method_arm(cur.method)
              /\ resp = NoResponse
              /\ wrote = NoLine
              /\ Written(nread) = 0

C34_Witness ==
    /\ NullIdLine
    /\ pc = "read"
    /\ nread = 2
    /\ cur.method = "tools/call"
    /\ ran = "tools/call"
    /\ toolRan = "apply_agent"
    /\ out = <<1>>

(***************************************************************************)
(* The MCP server process managed by the desktop application.              *)
(***************************************************************************)
Quiescent == \A t \in Threads : threads[t].pc = "idle"

\* C35: once no call of start_mcp_server, stop_mcp_server or get_mcp_status is in
\* progress, mcp_running is true if and only if mcp_process holds a child handle,
\* whatever the calls were and however they interleaved.
C35_FlagMatchesHandle == Quiescent => (mcp_running <=> mcp_process.some)

\* both threads have returned from a call, a server was started, seen to have exited
\* by get_mcp_status and started again
C35_Witness ==
    /\ Quiescent
    /\ \A t \in Threads : threads[t].ret # NoReturn
    /\ mcp_running
    /\ mcp_process = Some(2)
    /\ children = <<"gone", "alive">>
    /\ \E t \in Threads : threads[t].prev.op = "get_mcp_status"

AlreadyRunning == [op |-> "start_mcp_server", result |-> Err("MCP server is already running")]

\* the children spawned and not yet killed or reaped
Held == {c \in DOMAIN children : children[c] # "gone"}

RefusedStart(t) ==
    (threads[t].pc = "start_check" /\ threads'[t].pc # "start_check" /\ mcp_process.some)
        => /\ threads'[t].pc = "idle"
           /\ threads'[t].ret = AlreadyRunning
           /\ children' = children
           /\ mcp_process' = mcp_process
           /\ mcp_running' = mcp_running

\* C36: start_mcp_server finding a child handle in mcp_process returns the error
\* "MCP server is already running", spawns nothing and leaves mcp_process and
\* mcp_running as they were, also when the held child has exited and no
\* get_mcp_status has seen it yet; at most one child handle is ever held.
C36_SecondStartRefused ==
    /\ [](Held \subseteq (IF mcp_process.some THEN {mcp_process.v} ELSE {}))
    /\ [][\A t \in Threads : RefusedStart(t)]_vars

\* one start was refused, and another is at its test while the held child has
\* exited unobserved
C36_Witness ==
    /\ threads[1].ret = AlreadyRunning
    /\ threads[1].pc = "idle"
    /\ threads[2].pc = "start_check"
    /\ mcp_process = Some(1)
    /\ children = <<"exited">>
    /\ mcp_running

\* the mutex thread t is about to acquire, if it is at a lock
Acquiring(t) ==
    CASE threads[t].pc \in {"start_lock", "stop_lock", "status_lock"} -> "mcp_process"
      [] threads[t].pc \in {"status_read_lock", "start_set_lock", "stop_set_lock",
                            "status_exit_lock"} -> "mcp_running"
      [] OTHER -> "none"

Holds(t) == {m \in DOMAIN mutex : mutex[m] = t}

LockOrder ==
    \A t \in Threads :
       /\ (Acquiring(t) # "none" /\ Holds(t) # {})
             => (Holds(t) = {"mcp_process"} /\ Acquiring(t) = "mcp_running")
       /\ (threads[t].pc \in {"status_read_lock", "status_read"})
             => Holds(t) \subseteq {"mcp_running"}

\* C37: a thread that acquires one of the two mutexes while holding the other holds
\* mcp_process and acquires mcp_running; start and stop have released mcp_process
\* when they call get_mcp_status; every call in progress eventually returns.
C37_NoDeadlock ==
    /\ []LockOrder
    /\ \A t \in Threads : (threads[t].pc # "idle") ~> (threads[t].pc = "idle")

\* both threads are inside a call, one holding mcp_process and waiting for
\* mcp_running, which the other holds
C37_Witness ==
    /\ mutex = [mcp_process |-> 1, mcp_running |-> 2]
    /\ threads[1].pc = "start_set_lock"
    /\ threads[2].pc = "status_read"

Stopped == [op |-> "stop_mcp_server", result |-> Ok(McpStatus(FALSE))]

\* the steps of a call of stop_mcp_server by thread t
StopReturns(t) ==
    (threads[t].op = "stop_mcp_server" /\ threads[t].pc # "idle" /\ threads'[t].pc = "idle")
        => /\ threads'[t].ret = Stopped
           /\ mcp_process' = NoneOpt
           /\ ~mcp_running'

SecondStop(t) ==
    (threads[t].op = "stop_mcp_server" /\ threads[t].pc # "idle" /\ threads[t].ret = Stopped)
        => /\ mcp_process' = mcp_process
           /\ mcp_running' = mcp_running
           /\ children' = children
           /\ threads'[t].ret = threads[t].ret

\* C38: called on its own, stop_mcp_server returns from any state (a child running,
\* none, or one that has exited) with mcp_process empty, mcp_running false and a
\* status of running = false, never an error; called again right after, it
\* changes none of these and returns the same status.
C38_StopIdempotent == [][\A t \in Threads : StopReturns(t) /\ SecondStop(t)]_vars

\* a server was started and stopped, and stopped a second time
C38_Witness ==
    /\ threads[1].pc = "idle"
    /\ threads[1].ret = Stopped
    /\ threads[1].prev = Stopped
    /\ children = <<"gone">>
    /\ ncalls = 3

(***************************************************************************)
(* The instruction categories in the database and in instruction files.    *)
(***************************************************************************)
CategoryTokens == {db_category_to_string(c) : c \in InstructionCategory}

\* C39: string_to_category(category_to_string(c)) = c for each of the eight
\* categories, their eight tokens are pairwise distinct, db.rs and mcp_server.rs
\* write every category as the same token, and a text that is none of the eight
\* tokens is read as General; so a row read back gives the category stored.
C39_CategoryRoundTrip ==
    /\ \A c \in InstructionCategory :
          /\ string_to_category(db_category_to_string(c)) = c
          /\ db_category_to_string(c) = category_to_string(c)
    /\ \A c, d \in InstructionCategory :
          c # d => db_category_to_string(c) # db_category_to_string(d)
    /\ \A s \in ForeignTokens \ CategoryTokens : string_to_category(s) = "General"
    /\ fetched.some =>
          IF row.v \in CategoryTokens
          THEN row.v = db_category_to_string(fetched.v)
          ELSE fetched.v = "General"
    /\ (fetched.some /\ row.v = db_category_to_string(instruction.category))
          => fetched.v = instruction.category

\* a CodeStyle instruction was stored and read back
C39_Witness ==
    /\ instruction.category = "CodeStyle"
    /\ row = Some("code_style")
    /\ fetched = Some("CodeStyle")

\* a row holding the name of the variant is read as General
C39_WitnessForeign == row = Some("CodeStyle") /\ fetched = Some("General")

\* C40: an instruction exported with export_instruction_to_markdown_text and parsed
\* with parse_instruction_from_markdown comes back with the category, the
\* priority and the enabled flag it had, for each of the eight categories and
\* every priority from 0 to 255.
C40_ExportParseRoundTrip ==
    parsed.some =>
       /\ parsed.v.ok
       /\ parsed.v.v.category = instruction.category
       /\ parsed.v.v.priority = instruction.priority
       /\ parsed.v.v.enabled = instruction.enabled

====
